---- MODULE Spec2Model ----
(***************************************************************************)
(* Model of yavne's operators.py: the vertex-normal compute engine         *)
(* (MESH_OT_UpdateVertexNormals: worker, execute, __del__).                *)
(*                                                                         *)
(* Numbers.  Vectors are integer triples.  A unit vector u/|u| is          *)
(* represented by the primitive integer vector of the same direction       *)
(* (components divided by their gcd), so Normalize is exact on directions  *)
(* and maps the zero vector to itself, as mathutils' normalize() does.     *)
(* Corner angles and face areas are positive integers in a fixed unit.     *)
(* Face normals are axis-aligned, so the angle between two of them is a    *)
(* multiple of a quarter turn.                                             *)
(***************************************************************************)
EXTENDS Integers, Sequences, FiniteSets, TLC

(***************************************************************************)
(* Bounds of the model.                                                    *)
(***************************************************************************)
\* largest worker count get_num_procs() returns in the engine model
MaxProcs == 2
\* vertex counts above the parallel threshold: Threshold+1 .. Threshold+MaxExtraVerts
MaxExtraVerts == 2
\* largest chunk count and vertex count of the chunk-range model
MaxTotal == 11
MaxRangeVerts == 90
\* largest merge distance, and largest coordinate of the probe vertex of the
\* cluster-query model, in units of the coordinate lattice
MaxDist == 2
MaxCoord == 3
\* most invocations of MergeVertexNormals in a row
MaxInvocations == 2

\* operators.py:1009, len(bm.verts) > 5000
ParallelThreshold == 5000

(***************************************************************************)
(* Integer helpers.                                                        *)
(***************************************************************************)
Abs(n) == IF n < 0 THEN -n ELSE n

RECURSIVE Gcd(_, _)
Gcd(a, b) == IF b = 0 THEN a ELSE Gcd(b, a % b)

RECURSIVE Pow2(_)
Pow2(n) == IF n = 0 THEN 1 ELSE 2 * Pow2(n - 1)

\* floor(log2(n)) for n >= 1
RECURSIVE FloorLog2(_)
FloorLog2(n) == IF n < 2 THEN 0 ELSE 1 + FloorLog2(n \div 2)

\* 2^k mod m, by repeated doubling
RECURSIVE Pow2Mod(_, _)
Pow2Mod(k, m) == IF k = 0 THEN 1 % m ELSE (2 * Pow2Mod(k - 1, m)) % m

(***************************************************************************)
(* IEEE-754 binary64 arithmetic of  int(chunk / total * len(bm.verts)).    *)
(* Python's / on two ints is the correctly rounded double quotient, * is   *)
(* the correctly rounded double product, int() truncates.  The 53-bit      *)
(* significands do not fit the model checker's integers, so the two        *)
(* roundings are followed through their remainders, which are small.       *)
(***************************************************************************)
\* the least j >= 0 with i * 2^j >= t: i/t lies in [2^-j, 2^(1-j)), i >= 1
RECURSIVE BinadeShift(_, _)
BinadeShift(i, t) == IF i >= t THEN 0 ELSE 1 + BinadeShift(2 * i, t)

\* fl(i/t) = (i * 2^k + r) / (t * 2^k) with k = 52 + BinadeShift(i, t): the
\* signed error numerator r of round-to-nearest-even on a 53-bit significand.
DivRoundErr(i, t) ==
    LET k   == 52 + BinadeShift(i, t)
        rem == (i * Pow2Mod(k, t)) % t
        odd == ((i * Pow2Mod(k, 2 * t)) % (2 * t)) >= t
    IN  IF rem = 0 THEN 0
        ELSE IF 2 * rem > t \/ (2 * rem = t /\ odd) THEN t - rem
        ELSE -rem

\* int(fl(fl(i/t) * V)) for 0 <= i <= t, t >= 1, V >= 0.
\* The exact product is N + rho/t + r*V/(t*2^k) with N = floor(i*V/t).  Only
\* when i*V/t is an integer and the quotient was rounded down can the product
\* fall below N; it then rounds back to N iff its distance to N is at most half
\* an ulp of the binade below N.
FloatChunkBound(i, t, V) ==
    IF i = 0 \/ V = 0 THEN 0
    ELSE LET j   == BinadeShift(i, t)
             r   == DivRoundErr(i, t)
             N   == (i * V) \div t
             rho == (i * V) % t
         IN  IF rho # 0 \/ r >= 0 THEN N
             ELSE LET eb == FloorLog2(2 * N - 1) - 1
                  IN  IF (-r) * V * 4 <= t * Pow2(eb + j + 1) THEN N ELSE N - 1

\* first = int(chunk / total * len(bm.verts))
ChunkFirstOffByOne(chunk, total, nv) == FloatChunkBound(chunk, total, nv) + 1
ChunkFirst(chunk, total, nv) == FloatChunkBound(chunk, total, nv)

\* last = int((chunk + 1) / total * len(bm.verts))
ChunkLastOverlap(chunk, total, nv) ==
    LET b == FloatChunkBound(chunk + 1, total, nv) IN IF b < nv THEN b + 1 ELSE b
ChunkLast(chunk, total, nv) == FloatChunkBound(chunk + 1, total, nv)

\* for idx in [i + first for i in range(last - first)]
ChunkIndices(chunk, total, nv) ==
    ChunkFirst(chunk, total, nv) .. (ChunkLast(chunk, total, nv) - 1)

(***************************************************************************)
(* Vectors (mathutils.Vector).                                             *)
(***************************************************************************)
ZeroVec == <<0, 0, 0>>
VAdd(a, b) == <<a[1] + b[1], a[2] + b[2], a[3] + b[3]>>
VScale(k, a) == <<k * a[1], k * a[2], k * a[3]>>
VNeg(a) == VScale(-1, a)

NormalizeZeroToUp(a) ==
    LET g == Gcd(Gcd(Abs(a[1]), Abs(a[2])), Abs(a[3]))
    IN  IF g = 0 THEN <<0, 0, 1>> ELSE <<a[1] \div g, a[2] \div g, a[3] \div g>>
\* Vector.normalize(): the unit vector of the same direction; zero stays zero
Normalize(a) ==
    LET g == Gcd(Gcd(Abs(a[1]), Abs(a[2])), Abs(a[3]))
    IN  IF g = 0 THEN ZeroVec ELSE <<a[1] \div g, a[2] \div g, a[3] \div g>>


RECURSIVE VSum(_, _)
\* sum of f[l] over the loops l of S (vn_local += ... for loop in ...)
VSum(f, S) ==
    IF S = {} THEN ZeroVec
    ELSE LET l == CHOOSE x \in S : TRUE IN VAdd(f[l], VSum(f, S \ {l}))

RECURSIVE NatSum(_, _)
NatSum(f, S) ==
    IF S = {} THEN 0
    ELSE LET x == CHOOSE y \in S : TRUE IN f[x] + NatSum(f, S \ {x})

SetMax(S) == CHOOSE x \in S : \A y \in S : y <= x

\* quarter turns between two axis-aligned unit vectors (Vector.angle)
QuarterTurns(a, b) == IF a = b THEN 0 ELSE IF a = VNeg(b) THEN 2 ELSE 1

\* math.pi in quarter turns
Pi == 2

RECURSIVE QuarterTurnZ(_, _)
\* v rotated k quarter turns about the z axis
QuarterTurnZ(v, k) == IF k = 0 THEN v ELSE QuarterTurnZ(<<-v[2], v[1], v[3]>>, k - 1)

(***************************************************************************)
(* The mesh (bpy mesh datablock / BMesh) as a record:                      *)
(*   nverts                len(bm.verts)                                   *)
(*   loop_vert, loop_face  loop.vert.index, loop.face of loop index l      *)
(*   loop_angle            loop.calc_angle()                               *)
(*   loop_frame            the loop's tangent frame (quarter turns)        *)
(*   loop_normal           layers loop-normal-x/y/z                        *)
(*   face_normal, face_area, face_smooth                                   *)
(*   face_influence        layer face-normal-influence                     *)
(*   vert_weight           layer vertex-normal-weight (on vertices that    *)
(*                         have corners; loose vertices have no corners)   *)
(*   links                 pairs of corners of one vertex that share an    *)
(*                         edge, with the edge's smooth flag               *)
(*   split_normal          the custom split normals of the mesh            *)
(***************************************************************************)
Modes == {"UNIFORM", "ANGLE", "AREA", "COMBINED", "UNWEIGHTED"}
ModeSeq == <<"UNIFORM", "ANGLE", "AREA", "COMBINED", "UNWEIGHTED">>
AxisSeq == <<(<<0, 0, 1>>), (<<1, 0, 0>>), (<<0, 1, 0>>)>>

Loops(m) == DOMAIN m.loop_vert
Faces(m) == DOMAIN m.face_normal

\* v.link_loops
LinkLoops(m, v) == {l \in Loops(m) : m.loop_vert[l] = v}

\* loop.face.normal
LoopFaceNormal(m, l) == m.face_normal[m.loop_face[l]]

RECURSIVE Closure(_, _)
\* the elements reachable from S over the unordered pairs E
Closure(S, E) ==
    LET T == S \cup {y \in UNION E : \E x \in S : {x, y} \in E}
    IN  IF T = S THEN S ELSE Closure(T, E)

(***************************************************************************)
(* utils.split_loops(vert, smooth_angle, use_flat_faces): the shading      *)
(* groups of a vertex, the connected components of its corners over the    *)
(* shared edges that are smooth, whose face normals differ by at most      *)
(* smooth_angle and, with use_flat_faces, whose faces are both smooth.     *)
(***************************************************************************)
SmoothPairs(m, v, smooth_angle, use_flat_faces) ==
    {k.loops : k \in {e \in m.links :
        /\ e.loops \subseteq LinkLoops(m, v)
        /\ e.smooth
        /\ \A a \in e.loops : \A b \in e.loops :
              QuarterTurns(LoopFaceNormal(m, a), LoopFaceNormal(m, b)) <= smooth_angle
        /\ use_flat_faces => \A a \in e.loops : m.face_smooth[m.loop_face[a]]}}

SplitLoops(m, v, smooth_angle, use_flat_faces) ==
    LET pairs == SmoothPairs(m, v, smooth_angle, use_flat_faces)
    IN  {Closure({l}, pairs) : l \in LinkLoops(m, v)}

(***************************************************************************)
(* types.FaceAreaCache / types.LinkedFaceAreaCache: get(face).             *)
(***************************************************************************)
FaceAreaCacheGet(m, f) == m.face_area[f]

\* pairs of faces that share an edge whose dihedral angle is within link_angle
LinkedFacePairs(m, link_angle) ==
    {p \in {{m.loop_face[a] : a \in e.loops} : e \in m.links} :
        \A f \in p : \A g \in p :
            QuarterTurns(m.face_normal[f], m.face_normal[g]) <= link_angle}

LinkedFaceAreaCacheGet(m, link_angle, f) ==
    NatSum(m.face_area, Closure({f}, LinkedFacePairs(m, link_angle)))

\* area_cache.get(face), with the cache chosen by use_linked_face_weights
AreaCacheGet(m, pr, f) ==
    IF pr.use_linked_face_weights
    THEN LinkedFaceAreaCacheGet(m, pr.link_angle, f)
    ELSE FaceAreaCacheGet(m, f)

SmoothAngleAlwaysPi(pr) == Pi
\* smooth_angle of worker: the preference, or pi without auto smooth
SmoothAngle(pr) == IF pr.use_auto_smooth THEN pr.smooth_angle ELSE Pi

\* utils.loop_space_transform(loop, vec, inverse)
LoopSpaceTransform(m, l, v, inverse) ==
    IF inverse THEN QuarterTurnZ(v, (4 - m.loop_frame[l]) % 4)
    ELSE QuarterTurnZ(v, m.loop_frame[l])

(***************************************************************************)
(* worker: the normal of one shading group.                                *)
(***************************************************************************)
\* influence_max = max(loop.face[face_normal_influence_layer] for loop in loop_group)
InfluenceMax(m, loop_group) ==
    SetMax({m.face_influence[m.loop_face[l]] : l \in loop_group})

LoopSubgroupAll(m, loop_group) == loop_group
\* loop_subgroup: the loops of the group whose face has influence_max
LoopSubgroup(m, loop_group) ==
    {l \in loop_group : m.face_influence[m.loop_face[l]] = InfluenceMax(m, loop_group)}

ContributionSwapped(m, pr, w, l) ==
    CASE w = "UNIFORM"    -> LoopFaceNormal(m, l)
      [] w = "ANGLE"      -> VScale(AreaCacheGet(m, pr, m.loop_face[l]), LoopFaceNormal(m, l))
      [] w = "AREA"       -> VScale(m.loop_angle[l], LoopFaceNormal(m, l))
      [] w = "COMBINED"   -> VScale(m.loop_angle[l] * AreaCacheGet(m, pr, m.loop_face[l]),
                                    LoopFaceNormal(m, l))
      [] w = "UNWEIGHTED" -> LoopSpaceTransform(m, l, m.loop_normal[l], TRUE)
      [] OTHER            -> ZeroVec
ContributionReadsLoopNormal(m, pr, w, l) ==
    CASE w = "UNIFORM"    -> VAdd(LoopFaceNormal(m, l), m.loop_normal[l])
      [] w = "ANGLE"      -> VScale(m.loop_angle[l], LoopFaceNormal(m, l))
      [] w = "AREA"       -> VScale(AreaCacheGet(m, pr, m.loop_face[l]), LoopFaceNormal(m, l))
      [] w = "COMBINED"   -> VScale(m.loop_angle[l] * AreaCacheGet(m, pr, m.loop_face[l]),
                                    LoopFaceNormal(m, l))
      [] w = "UNWEIGHTED" -> LoopSpaceTransform(m, l, m.loop_normal[l], TRUE)
      [] OTHER            -> ZeroVec
\* what one loop of the subgroup adds to vn_local under weight w
Contribution(m, pr, w, l) ==
    CASE w = "UNIFORM"    -> LoopFaceNormal(m, l)
      [] w = "ANGLE"      -> VScale(m.loop_angle[l], LoopFaceNormal(m, l))
      [] w = "AREA"       -> VScale(AreaCacheGet(m, pr, m.loop_face[l]), LoopFaceNormal(m, l))
      [] w = "COMBINED"   -> VScale(m.loop_angle[l] * AreaCacheGet(m, pr, m.loop_face[l]),
                                    LoopFaceNormal(m, l))
      [] w = "UNWEIGHTED" -> LoopSpaceTransform(m, l, m.loop_normal[l], TRUE)
      [] OTHER            -> ZeroVec

\* vn_local after the weight branch and vn_local.normalize()
GroupNormal(m, pr, w, loop_group) ==
    Normalize(VSum([l \in loop_group |-> Contribution(m, pr, w, l)],
                   LoopSubgroup(m, loop_group)))

AssignedLoopsSubgroup(m, loop_group) == LoopSubgroup(m, loop_group)
\* for loop in loop_group: the corners whose slot gets the group's normal
AssignedLoops(m, loop_group) == loop_group

\* the shading groups worker iterates over at vertex idx
VertexGroups(m, pr, idx) == SplitLoops(m, idx, SmoothAngle(pr), pr.use_flat_faces)

\* the slots out[loop.index] the loop body writes for vertex idx
VertexSlots(m, pr, idx) == UNION VertexGroups(m, pr, idx)

\* the output after the loop body for vertex idx
WorkerVertex(m, pr, out, idx) ==
    LET groups == VertexGroups(m, pr, idx)
        normal == [g \in groups |-> GroupNormal(m, pr, m.vert_weight[idx], g)]
    IN  [l \in DOMAIN out |->
            IF \E g \in groups : l \in AssignedLoops(m, g)
            THEN normal[CHOOSE g \in groups : l \in AssignedLoops(m, g)]
            ELSE out[l]]

(***************************************************************************)
(* Meshes of the model: a strip of nf triangles over the vertices          *)
(* place[1..nf+2] of a mesh with nv vertices; all other vertices are       *)
(* loose.  Face i has the corners 3i, 3i+1, 3i+2 at place[i+1..i+3];       *)
(* faces i and i+1 share the edge place[i+2]-place[i+3].                   *)
(***************************************************************************)
Influences == {0, 1, 2}

LoopNormalPattern(p, l) ==
    CASE p = 0 -> <<0, 0, 1>>
      [] p = 1 -> AxisSeq[(l % 3) + 1]
      [] p = 2 -> <<1, 1, 0>>
      [] OTHER -> <<0, -1, 2>>

StripLinks(nf, edge_smooth) ==
    UNION {{[loops |-> {3 * i + 1, 3 * i + 3}, smooth |-> edge_smooth[i]],
            [loops |-> {3 * i + 2, 3 * i + 4}, smooth |-> edge_smooth[i]]} : i \in 0 .. nf - 2}

StripMesh(nv, place, nf, weights, infl, fnormal, edge_smooth, lnpat) ==
    [nverts         |-> nv,
     loop_vert      |-> [l \in 0 .. 3 * nf - 1 |-> place[(l \div 3) + (l % 3) + 1]],
     loop_face      |-> [l \in 0 .. 3 * nf - 1 |-> l \div 3],
     loop_angle     |-> [l \in 0 .. 3 * nf - 1 |-> 1 + (l % 2)],
     loop_frame     |-> [l \in 0 .. 3 * nf - 1 |-> l % 4],
     loop_normal    |-> [l \in 0 .. 3 * nf - 1 |-> LoopNormalPattern(lnpat, l)],
     face_normal    |-> [f \in 0 .. nf - 1 |-> fnormal[f]],
     face_area      |-> [f \in 0 .. nf - 1 |-> 1 + 2 * (f % 2)],
     face_smooth    |-> [f \in 0 .. nf - 1 |-> TRUE],
     face_influence |-> [f \in 0 .. nf - 1 |-> infl[f]],
     vert_weight    |-> [v \in {place[k] : k \in 1 .. (IF nf = 0 THEN 0 ELSE nf + 2)} |->
                            weights[CHOOSE k \in 1 .. nf + 2 : place[k] = v]],
     links          |-> StripLinks(nf, edge_smooth),
     split_normal   |-> [l \in 0 .. 3 * nf - 1 |-> ZeroVec]]

\* where the n strip vertices sit among the nv vertices of the mesh: spread
\* evenly from vertex 0, or side by side around the middle vertex
Placements(nv, n) ==
    {[k \in 1 .. n |-> sg[1] + (k - 1) * sg[2]] :
        sg \in {x \in {<<0, IF n = 0 THEN 1 ELSE nv \div n>>,
                       <<IF nv >= 2 THEN (nv \div 2) - 1 ELSE 0, 1>>} :
                    x[2] >= 1 /\ x[1] + (n - 1) * x[2] <= nv - 1}}

\* vertex counts of the engine model: small meshes and meshes above the threshold
EngineVertexCounts ==
    {0, 3, 4} \cup (ParallelThreshold + 1 .. ParallelThreshold + MaxExtraVerts)

\* the faces a mesh of nv vertices carries in the engine model
EngineFaces(nv) == IF nv >= 4 THEN 2 ELSE IF nv = 3 THEN 1 ELSE 0

EngineMeshes ==
    UNION {{StripMesh(nv, place, EngineFaces(nv),
                      [k \in 1 .. EngineFaces(nv) + 2 |-> ModeSeq[((k + r) % 5) + 1]],
                      [f \in 0 .. EngineFaces(nv) - 1 |-> IF ip = 0 THEN 0 ELSE f % 2],
                      [f \in 0 .. EngineFaces(nv) - 1 |-> AxisSeq[(f % 3) + 1]],
                      [i \in 0 .. EngineFaces(nv) - 2 |-> sm],
                      lnpat) :
              place \in Placements(nv, IF EngineFaces(nv) = 0 THEN 0 ELSE EngineFaces(nv) + 2),
              r \in 0 .. 4,
              ip \in 0 .. 1,
              sm \in BOOLEAN,
              lnpat \in 0 .. 1} : nv \in EngineVertexCounts}

EnginePrefs ==
    {[use_linked_face_weights |-> FALSE, link_angle |-> 1,
      use_auto_smooth |-> TRUE, smooth_angle |-> 1, use_flat_faces |-> FALSE]}

\* os.name
Platforms == {"nt", "posix", "java"}

(***************************************************************************)
(* State.                                                                  *)
(***************************************************************************)
VARIABLES
    mesh,            \* context.edit_object.data with its custom data layers
    prefs,           \* self.addon.preferences
    os_name,         \* os.name
    mode,            \* the object's interaction mode
    show_edge_sharp, \* overlay.show_edge_sharp
    pc,              \* where execute stands
    bm,              \* the BMesh of execute: <<the mesh data>>, or <<>> outside
    split_normals,   \* the shared ctypes array
    procs,           \* self.procs
    proc,            \* the worker processes: state, chunk, total, idx, last
    joining,         \* the process execute is blocked in join() on, or -1
    writers,         \* per slot, the chunks that wrote it, in order
    commits,         \* calls of normals_split_custom_set so far
    iterated,        \* per vertex worker has handled one by one: its shading groups
    co,              \* v.co of every vertex
    vsel,            \* the vertices with v.select
    distance,        \* MergeVertexNormals.distance
    unselected,      \* MergeVertexNormals.unselected
    cells,           \* merge: the vertices of each cell of the grid
    selected_verts,  \* merge: the selected vertices still pending
    loop_normals,    \* merge: the loop normals read before the loop
    clusters,        \* merge: per iteration so far, its seed, its cluster, whether it wrote
    fsel,            \* the faces with f.select
    matrix_world,    \* edit_object.matrix_world: quarter turns about z, translation
    overlay,         \* overlay.show_vertex_normals, show_split_normals, show_face_normals
    normal_buffer,   \* preferences.normal_buffer: <<>> or <<the vector>>
    op,              \* the fields of the GetNormalVector operator
    draw_handlers,   \* draw handlers registered on SpaceView3D
    modal_handlers,  \* operators registered as modal handlers
    header_text,     \* the text of the area's header: <<>> or <<the text>>
    result,          \* what the operator's last call returned
    invocations,     \* merge: the calls of execute that have returned
    first_result,    \* merge: <<the mesh>> as the first call of execute left it, or <<>>
    objects,         \* scene.objects by name: type, hide_viewport, hidden in the view layer
    source,          \* preferences.source: the name of the shading source, or ""
    pick,            \* the fields of the PickShadingSource operator and what it returned
    scene_before,    \* pick: <<objects and mode when execute was called>>, or <<>>
    finishes,        \* pick: the calls of finish
    overlay_before,  \* <<the overlay flags when GetNormalVector.execute was called>>, or <<>>
    reports,         \* the reports of TransferShading
    transfer_result, \* what TransferShading.execute returned
    mode_sets        \* the calls of bpy.ops.object.mode_set

meshVars == <<mesh, prefs, os_name>>
ctxVars == <<mode, show_edge_sharp>>
engineVars == <<pc, bm, split_normals, procs, proc, joining, writers, commits>>
passVars == <<iterated>>
mergeVars == <<co, vsel, distance, unselected, cells, selected_verts, loop_normals, clusters>>
getVars == <<fsel, matrix_world, overlay, normal_buffer, op, draw_handlers, modal_handlers,
             header_text, result>>
\* the state of the other operators, which the compute engine leaves alone
runVars == <<invocations, first_result>>
sceneVars == <<objects, source>>
pickVars == <<pick, scene_before, finishes>>
transferVars == <<reports, transfer_result, mode_sets>>
extraVars == <<runVars, sceneVars, pickVars, transferVars, overlay_before>>
opVars == <<passVars, mergeVars, getVars, extraVars>>
vars == <<mesh, prefs, os_name, mode, show_edge_sharp, pc, bm, split_normals,
          procs, proc, joining, writers, commits, opVars>>

\* the BMesh execute and its workers read
BM == bm[1]

\* the other operators have not run
\* the operators added to the model last: nothing has been called
InitSession ==
    /\ invocations = 0
    /\ first_result = <<>>
    /\ objects = <<>>
    /\ source = ""
    /\ pick = <<>>
    /\ scene_before = <<>>
    /\ finishes = 0
    /\ overlay_before = <<>>
    /\ reports = <<>>
    /\ transfer_result = "NONE"
    /\ mode_sets = 0

InitOperators ==
    /\ InitSession
    /\ iterated = <<>>
    /\ co = <<>>
    /\ vsel = {}
    /\ distance = 1
    /\ unselected = FALSE
    /\ cells = <<>>
    /\ selected_verts = {}
    /\ loop_normals = <<>>
    /\ clusters = <<>>
    /\ fsel = {}
    /\ matrix_world = [turns |-> 0, loc |-> ZeroVec]
    /\ overlay = [show_vertex_normals |-> FALSE, show_split_normals |-> FALSE,
                  show_face_normals |-> FALSE]
    /\ normal_buffer = <<>>
    /\ op = <<>>
    /\ draw_handlers = 0
    /\ modal_handlers = 0
    /\ header_text = <<>>
    /\ result = "NONE"

\* MESH_OT_UpdateVertexNormals.__init__ has run; poll() holds (Edit mode)
InitEngine ==
    /\ InitOperators
    /\ mode = "EDIT"
    /\ show_edge_sharp = FALSE
    /\ pc = "idle"
    /\ bm = <<>>
    /\ split_normals = <<>>
    /\ procs = <<>>
    /\ proc = <<>>
    /\ joining = -1
    /\ writers = <<>>
    /\ commits = 0

Init ==
    /\ mesh \in EngineMeshes
    /\ prefs \in EnginePrefs
    /\ os_name \in Platforms
    /\ InitEngine


(***************************************************************************)
(* worker over a range of vertices.  A vertex without corners has no       *)
(* shading group, so its pass through the loop body changes nothing: the   *)
(* model goes from one vertex that has corners to the next one.            *)
(***************************************************************************)
\* the first vertex in idx .. last-1 that has corners, or last
NextWork(m, idx, last) ==
    LET work == {v \in {m.loop_vert[l] : l \in Loops(m)} : idx <= v /\ v < last}
    IN  IF work = {} THEN last ELSE CHOOSE v \in work : \A u \in work : v <= u

\* the record of who wrote which slot, after chunk's loop body for vertex idx
WritersVertex(m, pr, wr, idx, chunk) ==
    LET slots == VertexSlots(m, pr, idx)
    IN  [l \in DOMAIN wr |-> IF l \in slots THEN Append(wr[l], chunk) ELSE wr[l]]

RECURSIVE WorkerRun(_, _, _, _, _)
\* for idx in first .. last-1: the output after the whole loop
WorkerRun(m, pr, out, idx, last) ==
    LET v == NextWork(m, idx, last)
    IN  IF v >= last THEN out
        ELSE WorkerRun(m, pr, WorkerVertex(m, pr, out, v), v + 1, last)

RECURSIVE WritersRun(_, _, _, _, _, _)
WritersRun(m, pr, wr, idx, last, chunk) ==
    LET v == NextWork(m, idx, last)
    IN  IF v >= last THEN wr
        ELSE WritersRun(m, pr, WritersVertex(m, pr, wr, v, chunk), v + 1, last, chunk)

\* worker(bm, out, chunk, total) as one call
Worker(m, pr, out, chunk, total) ==
    WorkerRun(m, pr, out, ChunkFirst(chunk, total, m.nverts), ChunkLast(chunk, total, m.nverts))

(***************************************************************************)
(* MESH_OT_UpdateVertexNormals.execute                                     *)
(***************************************************************************)
\* multiprocessing.sharedctypes.Array(types.Vec3, len(mesh.loops), lock=False)
NewSharedArray(m) == [l \in Loops(m) |-> ZeroVec]

\* multiprocessing.sharedctypes is used on every platform execute runs on
SharedMemorySupported(os) == TRUE

UseParallelAnyPlatform(m, os) == m.nverts > ParallelThreshold
\* len(bm.verts) > 5000 and os.name not in {'nt', 'posix'}
UseParallel(m, os) == m.nverts > ParallelThreshold /\ os \notin {"nt", "posix"}

NormalsSplitCustomSetClobber(m, normals) ==
    [m EXCEPT !.split_normal = normals, !.loop_normal = normals]
\* mesh.normals_split_custom_set([(n.x, n.y, n.z) for n in split_normals])
NormalsSplitCustomSet(m, normals) == [m EXCEPT !.split_normal = normals]

\* mode_set(OBJECT), bm.from_mesh(mesh), overlay flag, the shared array
Prepare ==
    /\ pc = "idle"
    /\ mode' = "OBJECT"
    /\ bm' = <<mesh>>
    /\ show_edge_sharp' = TRUE
    /\ split_normals' = NewSharedArray(mesh)
    /\ writers' = [l \in Loops(mesh) |-> <<>>]
    /\ pc' = "prepared"
    /\ UNCHANGED <<opVars, meshVars, procs, proc, joining, commits>>

\* multiprocessing.Process(target=self.worker, args=(bm, split_normals, i, num_procs))
NewProcess(i, num_procs) ==
    [state |-> "created", chunk |-> i, total |-> num_procs, first |-> 0, idx |-> 0, last |-> 0]

\* the team of worker processes: num_procs = utils.get_num_procs()
CreateTeam ==
    /\ pc = "prepared"
    /\ UseParallel(BM, os_name)
    /\ \E num_procs \in 1 .. MaxProcs :
          /\ procs' = [i \in 1 .. num_procs |-> i - 1]
          /\ proc' = [i \in 0 .. num_procs - 1 |-> NewProcess(i, num_procs)]
    /\ pc' = "starting"
    /\ UNCHANGED <<opVars, meshVars, ctxVars, bm, split_normals, joining, writers, commits>>

\* the process entering worker: first, last and the first vertex to handle
Started(pr, m) ==
    [pr EXCEPT !.state = "running",
               !.first = ChunkFirst(pr.chunk, pr.total, m.nverts),
               !.idx = NextWork(m, ChunkFirst(pr.chunk, pr.total, m.nverts),
                                ChunkLast(pr.chunk, pr.total, m.nverts)),
               !.last = ChunkLast(pr.chunk, pr.total, m.nverts)]

\* for p in self.procs: p.start()
StartProc ==
    /\ pc = "starting"
    /\ LET p == CHOOSE q \in DOMAIN proc :
                    proc[q].state = "created" /\ \A o \in 0 .. q - 1 : proc[o].state # "created"
       IN  /\ proc' = [proc EXCEPT ![p] = Started(proc[p], BM)]
           /\ pc' = IF p = Len(procs) - 1 THEN "joining" ELSE "starting"
    /\ UNCHANGED <<opVars, meshVars, ctxVars, bm, split_normals, procs, joining, writers, commits>>

\* one pass of a worker process through the loop body
WorkerStep(p) ==
    /\ proc[p].state = "running"
    /\ proc[p].idx < proc[p].last
    /\ split_normals' = WorkerVertex(BM, prefs, split_normals, proc[p].idx)
    /\ writers' = WritersVertex(BM, prefs, writers, proc[p].idx, proc[p].chunk)
    /\ proc' = [proc EXCEPT ![p].idx = NextWork(BM, proc[p].idx + 1, proc[p].last)]
    /\ UNCHANGED <<opVars, meshVars, ctxVars, pc, bm, procs, joining, commits>>

\* worker returns and the process exits
WorkerExit(p) ==
    /\ proc[p].state = "running"
    /\ proc[p].idx >= proc[p].last
    /\ proc' = [proc EXCEPT ![p].state = "exited"]
    /\ UNCHANGED <<opVars, meshVars, ctxVars, pc, bm, split_normals, procs, joining, writers, commits>>

\* p = self.procs.pop()
JoinPop ==
    /\ pc = "joining"
    /\ joining = -1
    /\ procs # <<>>
    /\ joining' = procs[Len(procs)]
    /\ procs' = SubSeq(procs, 1, Len(procs) - 1)
    /\ UNCHANGED <<opVars, meshVars, ctxVars, pc, bm, split_normals, proc, writers, commits>>

JoinReturnsAtOnce(pr) == TRUE
JoinReturnsOnExitOnly(pr) == pr.state = "exited"
\* p.join() returns once the process has ended, however it ended
JoinReturns(pr) == pr.state \in {"exited", "terminated", "crashed"}

\* p.join() returns; while len(self.procs) > 0
JoinReturn ==
    /\ pc = "joining"
    /\ joining # -1
    /\ JoinReturns(proc[joining])
    /\ joining' = -1
    /\ pc' = IF procs = <<>> THEN "computed" ELSE "joining"
    /\ UNCHANGED <<opVars, meshVars, ctxVars, bm, split_normals, procs, proc, writers, commits>>

\* self.worker(bm, split_normals, 0, 1)
RunSerial ==
    /\ pc = "prepared"
    /\ ~UseParallel(BM, os_name)
    /\ split_normals' = Worker(BM, prefs, split_normals, 0, 1)
    /\ writers' = WritersRun(BM, prefs, writers, ChunkFirst(0, 1, BM.nverts),
                             ChunkLast(0, 1, BM.nverts), 0)
    /\ pc' = "computed"
    /\ UNCHANGED <<opVars, meshVars, ctxVars, bm, procs, proc, joining, commits>>

\* normals_split_custom_set, mode_set(EDIT), bm.free(), return FINISHED
Commit ==
    /\ pc = "computed"
    /\ mesh' = NormalsSplitCustomSet(mesh, split_normals)
    /\ commits' = commits + 1
    /\ mode' = "EDIT"
    /\ bm' = <<>>
    /\ pc' = "done"
    /\ UNCHANGED <<opVars, prefs, os_name, show_edge_sharp, split_normals, procs, proc, joining,
                   writers>>

\* p.terminate() on a process
Terminated(pr) == IF pr.state = "running" THEN [pr EXCEPT !.state = "terminated"] ELSE pr

\* __del__ while execute is in its parallel section: for p in self.procs: p.terminate()
Teardown ==
    /\ pc \in {"starting", "joining"}
    /\ proc' = [p \in DOMAIN proc |->
                  IF \E k \in 1 .. Len(procs) : procs[k] = p THEN Terminated(proc[p])
                  ELSE proc[p]]
    /\ pc' = "torn"
    /\ UNCHANGED <<opVars, meshVars, ctxVars, bm, split_normals, procs, joining, writers, commits>>

Next ==
    \/ Prepare
    \/ CreateTeam
    \/ StartProc
    \/ \E p \in DOMAIN proc : WorkerStep(p)
    \/ \E p \in DOMAIN proc : WorkerExit(p)
    \/ JoinPop
    \/ JoinReturn
    \/ RunSerial
    \/ Commit
    \/ Teardown

Spec == Init /\ [][Next]_vars


(***************************************************************************)
(* The chunk ranges as a function of (chunk, total, vertex count): every   *)
(* chunk of a team over a mesh of loose vertices enters worker in turn.    *)
(***************************************************************************)
RangeVertexCounts == (0 .. MaxRangeVerts) \cup {4000}

InitRange ==
    /\ \E nv \in RangeVertexCounts :
          mesh = StripMesh(nv, <<>>, 0, <<>>, <<>>, <<>>, <<>>, 0)
    /\ prefs \in EnginePrefs
    /\ os_name = "java"
    /\ mode = "OBJECT"
    /\ show_edge_sharp = TRUE
    /\ pc = "ranges"
    /\ bm = <<mesh>>
    /\ split_normals = NewSharedArray(mesh)
    /\ procs = <<>>
    /\ \E total \in 1 .. MaxTotal : proc = [i \in 0 .. total - 1 |-> NewProcess(i, total)]
    /\ joining = -1
    /\ writers = <<>>
    /\ commits = 0
    /\ InitOperators

\* the next chunk computes first and last
RangeStep ==
    /\ pc = "ranges"
    /\ \E p \in DOMAIN proc :
          /\ proc[p].state = "created"
          /\ \A o \in 0 .. p - 1 : proc[o].state # "created"
          /\ proc' = [proc EXCEPT ![p] = Started(proc[p], BM)]
    /\ UNCHANGED <<opVars, meshVars, ctxVars, pc, bm, split_normals, procs, joining, writers, commits>>

SpecRange == InitRange /\ [][RangeStep]_vars

(***************************************************************************)
(* The group normal as a function of the group: a fan of three faces at    *)
(* vertex Hub, any non-empty set of its corners taken as the group.        *)
(***************************************************************************)
AggregatePlace == <<0, 1, 2, 3, 4>>
\* the vertex shared by the three faces of the strip
Hub == AggregatePlace[3]

AggregateMeshes ==
    {StripMesh(Len(AggregatePlace), AggregatePlace, 3,
               [k \in 1 .. 5 |-> IF k = Hub + 1 THEN w ELSE "UNIFORM"],
               infl,
               [f \in 0 .. 2 |-> IF f = 0 THEN AxisSeq[1] ELSE
                                 IF f = 1 THEN n1 ELSE n2],
               [i \in 0 .. 1 |-> TRUE],
               lnpat) :
        w \in Modes,
        infl \in [0 .. 2 -> Influences],
        n1 \in {AxisSeq[1], AxisSeq[2], VNeg(AxisSeq[1])},
        n2 \in {AxisSeq[2], AxisSeq[3]},
        lnpat \in 1 .. 2}

AggregatePrefs ==
    {[use_linked_face_weights |-> b, link_angle |-> 0,
      use_auto_smooth |-> FALSE, smooth_angle |-> 1, use_flat_faces |-> FALSE] :
        b \in BOOLEAN}

InitAggregate ==
    /\ mesh \in AggregateMeshes
    /\ prefs \in AggregatePrefs
    /\ os_name = "posix"
    /\ mode = "OBJECT"
    /\ show_edge_sharp = TRUE
    /\ pc = "group"
    /\ bm = <<mesh>>
    /\ split_normals = NewSharedArray(mesh)
    /\ procs = <<>>
    /\ proc = <<>>
    /\ joining = -1
    /\ writers = [l \in Loops(mesh) |-> <<>>]
    /\ commits = 0
    /\ InitOperators

\* the loop body of worker for one group of corners of Hub
AggregateGroup ==
    /\ pc = "group"
    /\ \E loop_group \in (SUBSET LinkLoops(BM, Hub)) \ {{}} :
          /\ split_normals' =
                [l \in DOMAIN split_normals |->
                    IF l \in AssignedLoops(BM, loop_group)
                    THEN GroupNormal(BM, prefs, BM.vert_weight[Hub], loop_group)
                    ELSE split_normals[l]]
          /\ writers' = [l \in DOMAIN writers |->
                           IF l \in loop_group THEN Append(writers[l], 0) ELSE writers[l]]
    /\ pc' = "grouped"
    /\ UNCHANGED <<opVars, meshVars, ctxVars, bm, procs, proc, joining, commits>>

SpecAggregate == InitAggregate /\ [][AggregateGroup]_vars


(***************************************************************************)
(* Properties.                                                             *)
(***************************************************************************)
\* the chunks that have entered worker
Entered == {p \in DOMAIN proc : proc[p].state # "created"}
Total == Cardinality(DOMAIN proc)
AllEntered == Total >= 1 /\ Entered = DOMAIN proc
SeqRange(q) == {q[k] : k \in 1 .. Len(q)}

\* C1 as stated: chunk i of total over V vertices handles exactly the indices
\* floor(i*V/total) .. floor((i+1)*V/total) - 1.
C1_FloorRanges ==
    \A p \in Entered :
        /\ proc[p].first = (p * mesh.nverts) \div Total
        /\ proc[p].last = ((p + 1) * mesh.nverts) \div Total

\* C1 amended: the bounds are int(i/total*V) in double arithmetic: each is
\* floor(i*V/total), or one less and then only where total divides i*V; chunk 0
\* begins at 0, each chunk ends where the next begins, the last ends at V, so
\* every index of 0..V-1 lies in exactly one range; total=4, V=4000 gives
\* [0,1000) [1000,2000) [2000,3000) [3000,4000).
C1_ChunkPartition ==
    /\ \A p \in Entered :
          /\ proc[p].first <= proc[p].last
          /\ \/ proc[p].first = (p * mesh.nverts) \div Total
             \/ /\ proc[p].first = ((p * mesh.nverts) \div Total) - 1
                /\ (p * mesh.nverts) % Total = 0
          /\ p = 0 => proc[p].first = 0
          /\ p = Total - 1 => proc[p].last = mesh.nverts
          /\ p + 1 \in Entered => proc[p].last = proc[p + 1].first
    /\ AllEntered =>
          \A v \in 0 .. mesh.nverts - 1 :
              Cardinality({p \in DOMAIN proc : proc[p].first <= v /\ v < proc[p].last}) = 1
    /\ (AllEntered /\ Total = 4 /\ mesh.nverts = 4000) =>
          \A p \in DOMAIN proc : proc[p].first = 1000 * p /\ proc[p].last = 1000 * (p + 1)

\* every chunk of a team of 10 over 90 vertices has entered worker, and the
\* bound between chunks 6 and 7 is not floor(7*90/10)
C1_Witness ==
    /\ AllEntered /\ Total = 10 /\ mesh.nverts = 90
    /\ proc[7].first = 62

\* the mesh the workers read (bm is freed when execute returns)
WorkMesh == IF bm = <<>> THEN mesh ELSE BM

\* the total of the pass: the team's size, or 1 for the serial call
PassTotal == IF proc = <<>> THEN 1 ELSE Total

\* C2: no slot of the output buffer is written by two different workers, and
\* every slot a worker writes belongs to a corner of a vertex of its own range.
C2_DisjointWriters ==
    \A l \in DOMAIN writers :
        /\ Cardinality(SeqRange(writers[l])) <= 1
        /\ \A c \in SeqRange(writers[l]) :
              WorkMesh.loop_vert[l] \in ChunkIndices(c, PassTotal, WorkMesh.nverts)

\* two workers of one pass have each written a slot
C2_Witness ==
    /\ Total >= 2
    /\ \E a \in DOMAIN writers : \E b \in DOMAIN writers :
          writers[a] = <<0>> /\ writers[b] = <<1>>

\* C3: once all workers of a team have run, in whatever interleaving, the
\* buffer holds exactly what the single call worker(bm, out, 0, 1) leaves.
C3_ParallelEqualsSerial ==
    (proc # <<>> /\ \A p \in DOMAIN proc : proc[p].state = "exited") =>
        split_normals = Worker(WorkMesh, prefs, NewSharedArray(WorkMesh), 0, 1)

\* a team of two or more over a vertex count it does not divide has finished,
\* and two of its workers wrote slots
C3_Witness ==
    /\ Total >= 2 /\ mesh.nverts % Total # 0
    /\ \A p \in DOMAIN proc : proc[p].state = "exited"
    /\ \E a \in DOMAIN writers : \E b \in DOMAIN writers :
          writers[a] # <<>> /\ writers[b] # <<>> /\ writers[a] # writers[b]
    /\ \E l \in DOMAIN split_normals : split_normals[l] # ZeroVec

C5_TeardownTerminatesAll ==
    pc = "torn" =>
        /\ \A p \in DOMAIN proc : proc[p].state # "running"
        /\ commits = 0

\* C6 as stated: the parallel path is taken whenever the vertex count exceeds
\* the threshold and the platform supports the shared-memory mechanism, and
\* otherwise one worker runs as chunk 0 of 1.
C6_ParallelWhenSupported ==
    pc \in {"starting", "joining", "computed", "done", "torn"} =>
        IF mesh.nverts > ParallelThreshold /\ SharedMemorySupported(os_name)
        THEN proc # <<>> /\ \A p \in DOMAIN proc : proc[p].total = Total
        ELSE proc = <<>> /\ \A l \in DOMAIN writers : writers[l] = <<0>>

(***************************************************************************)
(* The group normal (specification SpecAggregate).                         *)
(***************************************************************************)
\* the group the loop body ran on, and the normal it assigned
DoneGroup == {l \in DOMAIN writers : writers[l] # <<>>}
DoneNormal == split_normals[CHOOSE l \in DoneGroup : TRUE]
PriorityOf(l) == mesh.face_influence[mesh.loop_face[l]]
TopPriority(G) == CHOOSE x \in {PriorityOf(l) : l \in G} : \A l \in G : PriorityOf(l) <= x
TopLoops(G) == {l \in G : \A k \in G : PriorityOf(k) <= PriorityOf(l)}
HubWeight == mesh.vert_weight[Hub]
RawSum(G) == VSum([l \in G |-> Contribution(mesh, prefs, HubWeight, l)], TopLoops(G))

\* C7: the normal of a group depends only on its corners of maximal face
\* priority: a further corner of lower priority leaves it unchanged, one of
\* equal priority adds its contribution to the sum, one of higher priority
\* makes the normal that corner's contribution alone.
C7_MaxPriorityOnly ==
    pc = "grouped" =>
        \A c \in LinkLoops(mesh, Hub) \ DoneGroup :
            LET more == GroupNormal(mesh, prefs, HubWeight, DoneGroup \cup {c})
                top  == TopPriority(DoneGroup)
            IN  /\ PriorityOf(c) < top => more = DoneNormal
                /\ PriorityOf(c) = top =>
                      more = Normalize(VAdd(RawSum(DoneGroup),
                                            Contribution(mesh, prefs, HubWeight, c)))
                /\ PriorityOf(c) > top =>
                      more = Normalize(Contribution(mesh, prefs, HubWeight, c))

\* a group whose normal a lower-priority corner would change if it counted
C7_Witness ==
    /\ pc = "grouped"
    /\ \E c \in LinkLoops(mesh, Hub) \ DoneGroup :
          /\ PriorityOf(c) < TopPriority(DoneGroup)
          /\ Normalize(VAdd(RawSum(DoneGroup), Contribution(mesh, prefs, HubWeight, c)))
                # DoneNormal

\* the contribution of a corner as the weight modes define it
StatedContribution(l) ==
    LET n    == mesh.face_normal[mesh.loop_face[l]]
        area == AreaCacheGet(mesh, prefs, mesh.loop_face[l])
    IN  CASE HubWeight = "UNIFORM"    -> n
          [] HubWeight = "ANGLE"      -> VScale(mesh.loop_angle[l], n)
          [] HubWeight = "AREA"       -> VScale(area, n)
          [] HubWeight = "COMBINED"   -> VScale(mesh.loop_angle[l] * area, n)
          [] HubWeight = "UNWEIGHTED" ->
                QuarterTurnZ(mesh.loop_normal[l], (4 - mesh.loop_frame[l]) % 4)

\* C8: in each weight mode the group normal is the normalized sum, over the
\* corners of maximal priority, of: the face normal (UNIFORM), angle x normal
\* (ANGLE), cached area x normal (AREA), angle x area x normal (COMBINED), the
\* stored loop normal taken back to averaging space (UNWEIGHTED); AREA over two
\* top faces of areas 1 and 3 gives normalize(1*n1 + 3*n2).
C8_WeightModes ==
    pc = "grouped" =>
        /\ \A l \in DoneGroup :
              split_normals[l] =
                  Normalize(VSum([k \in DoneGroup |-> StatedContribution(k)],
                                 TopLoops(DoneGroup)))
        /\ ( /\ HubWeight = "AREA" /\ ~prefs.use_linked_face_weights
             /\ DoneGroup = {2, 4}
             /\ mesh.face_influence[0] = mesh.face_influence[1]
             /\ mesh.face_area[0] = 1 /\ mesh.face_area[1] = 3 ) =>
              DoneNormal = Normalize(VAdd(mesh.face_normal[0],
                                          VScale(3, mesh.face_normal[1])))

\* AREA over two top faces of areas 1 and 3 with different normals
C8_Witness ==
    /\ pc = "grouped" /\ HubWeight = "AREA" /\ ~prefs.use_linked_face_weights
    /\ DoneGroup = {2, 4}
    /\ mesh.face_influence[0] = mesh.face_influence[1]
    /\ mesh.face_area[0] = 1 /\ mesh.face_area[1] = 3
    /\ mesh.face_normal[0] # mesh.face_normal[1]
    /\ DoneNormal = <<3, 0, 1>>

(***************************************************************************)
(* Frame of the engine (specification Spec).                               *)
(***************************************************************************)
\* the buffer of a run on the same mesh with the stored loop normals replaced
OtherRun(p) ==
    Worker([WorkMesh EXCEPT !.loop_normal = [l \in Loops(WorkMesh) |-> LoopNormalPattern(p, l)]],
           prefs, NewSharedArray(WorkMesh), 0, 1)

\* C9: what worker writes for the corners of a vertex whose weight is not
\* UNWEIGHTED does not depend on the stored loop normals: a run on a mesh that
\* differs only in them writes the same values to those slots.
C9_LoopNormalUnread ==
    \A p \in 2 .. 3 :
        LET other == OtherRun(p)
        IN  \A l \in DOMAIN writers :
                (writers[l] # <<>> /\ WorkMesh.vert_weight[WorkMesh.loop_vert[l]] # "UNWEIGHTED")
                    => split_normals[l] = other[l]

\* a finished pass with a corner of a weighted vertex whose stored loop normal
\* differs between the runs, and an UNWEIGHTED corner whose output differs
C9_Witness ==
    /\ pc = "done"
    /\ \E l \in DOMAIN writers : \E p \in 2 .. 3 :
          /\ WorkMesh.vert_weight[WorkMesh.loop_vert[l]] # "UNWEIGHTED"
          /\ WorkMesh.loop_normal[l] # LoopNormalPattern(p, l)
          /\ \E k \in DOMAIN writers :
                /\ WorkMesh.vert_weight[WorkMesh.loop_vert[k]] = "UNWEIGHTED"
                /\ split_normals[k] # OtherRun(p)[k]

\* C10: no step of the engine changes a vertex weight, a face influence or a
\* stored loop normal; the only change to the mesh is the commit, which sets
\* the split normals to the buffer and nothing else.
C10_EngineFrame ==
    [][ /\ mesh'.vert_weight = mesh.vert_weight
        /\ mesh'.face_influence = mesh.face_influence
        /\ mesh'.loop_normal = mesh.loop_normal
        /\ mesh' # mesh =>
              /\ pc = "computed" /\ pc' = "done"
              /\ mesh' = [mesh EXCEPT !.split_normal = split_normals]
        /\ bm' # <<>> /\ bm # <<>> => bm' = bm ]_vars

\* execute has returned and the commit changed the mesh's split normals
C10_Witness ==
    /\ pc = "done"
    /\ \E l \in Loops(mesh) : mesh.split_normal[l] # ZeroVec /\ mesh.loop_normal[l] # mesh.split_normal[l]

(***************************************************************************)
(* The serial call worker(bm, split_normals, 0, 1) one vertex at a time,   *)
(* on small meshes: a fan of three faces around vertex VertexPlace[3] with *)
(* one loose vertex in the middle of the index range.                      *)
(***************************************************************************)
VertexPlace == <<0, 1, 3, 4, 5>>
\* the vertex of the small mesh that has no corner
LooseVertex == VertexPlace[2] + 1

VertexMeshes ==
    {[StripMesh(Len(VertexPlace) + 1, VertexPlace, 3,
                [k \in 1 .. 5 |-> ModeSeq[((k + r) % 5) + 1]],
                [f \in 0 .. 2 |-> 0],
                [f \in 0 .. 2 |-> IF f = 0 THEN AxisSeq[1] ELSE IF f = 1 THEN n1 ELSE n2],
                edge_smooth,
                1) EXCEPT !.face_smooth = [f \in 0 .. 2 |-> f # flat]] :
        r \in {0, 2, 3},
        n1 \in {AxisSeq[1], AxisSeq[2], VNeg(AxisSeq[1])},
        n2 \in {AxisSeq[1], AxisSeq[2], VNeg(AxisSeq[1])},
        edge_smooth \in [0 .. 1 -> BOOLEAN],
        flat \in {1, 3}}

VertexPrefs ==
    {[use_linked_face_weights |-> FALSE, link_angle |-> 1,
      use_auto_smooth |-> a, smooth_angle |-> t, use_flat_faces |-> ff] :
        a \in BOOLEAN, t \in 0 .. 1, ff \in BOOLEAN}

\* self.worker(bm, split_normals, 0, 1) is entered: first, last
SerialCall ==
    /\ pc = "prepared"
    /\ ~UseParallel(BM, os_name)
    /\ proc' = [i \in {0} |->
                  [NewProcess(0, 1) EXCEPT !.state = "inline",
                                           !.first = ChunkFirst(0, 1, BM.nverts),
                                           !.idx = ChunkFirst(0, 1, BM.nverts),
                                           !.last = ChunkLast(0, 1, BM.nverts)]]
    /\ pc' = "serial"
    /\ UNCHANGED <<meshVars, ctxVars, bm, split_normals, procs, joining, writers, commits,
                   opVars>>

\* one pass through the loop body of worker, for vertex idx
SerialStep ==
    /\ pc = "serial"
    /\ proc[0].idx < proc[0].last
    /\ split_normals' = WorkerVertex(BM, prefs, split_normals, proc[0].idx)
    /\ writers' = WritersVertex(BM, prefs, writers, proc[0].idx, 0)
    /\ iterated' = [v \in DOMAIN iterated \cup {proc[0].idx} |->
                      IF v = proc[0].idx THEN VertexGroups(BM, prefs, v) ELSE iterated[v]]
    /\ proc' = [proc EXCEPT ![0].idx = proc[0].idx + 1]
    /\ UNCHANGED <<meshVars, ctxVars, pc, bm, procs, joining, commits, mergeVars, getVars,
                   extraVars>>

\* worker returns to execute
SerialReturn ==
    /\ pc = "serial"
    /\ proc[0].idx >= proc[0].last
    /\ pc' = "computed"
    /\ UNCHANGED <<meshVars, ctxVars, bm, split_normals, procs, proc, joining, writers,
                   commits, opVars>>

(***************************************************************************)
(* Shading groups, loose vertices, zero sums (specification SpecVertex).   *)
(***************************************************************************)
\* corners a and b of one vertex share an edge that is not sharp, whose two
\* face normals are within the smoothing angle and, under the flat-faces flag,
\* whose faces are both smooth
Qualifies(a, b) ==
    \E e \in WorkMesh.links :
        /\ e.loops = {a, b}
        /\ e.smooth
        /\ prefs.use_auto_smooth =>
              QuarterTurns(WorkMesh.face_normal[WorkMesh.loop_face[a]],
                           WorkMesh.face_normal[WorkMesh.loop_face[b]]) <= prefs.smooth_angle
        /\ prefs.use_flat_faces =>
              /\ WorkMesh.face_smooth[WorkMesh.loop_face[a]]
              /\ WorkMesh.face_smooth[WorkMesh.loop_face[b]]

\* a chain of qualifying edges leads from corner a to corner b within L
Chained(L, a, b) ==
    \E n \in 1 .. Cardinality(L) :
        \E path \in [1 .. n -> L] :
            /\ path[1] = a
            /\ path[n] = b
            /\ \A i \in 1 .. n - 1 : Qualifies(path[i], path[i + 1])

\* C11: the shading groups worker iterates over at a vertex are non-empty,
\* pairwise disjoint and cover exactly the vertex's corners; two corners are in
\* one group exactly when a chain of shared edges joins them, each not sharp
\* and between face normals within the smoothing angle; under the flat-faces
\* flag a corner of a non-smooth face is a group of its own.
C11_GroupsPartition ==
    \A v \in DOMAIN iterated :
        LET G == iterated[v]
            L == LinkLoops(WorkMesh, v)
        IN  /\ {} \notin G
            /\ \A g \in G : \A h \in G : g # h => g \cap h = {}
            /\ UNION G = L
            /\ \A a \in L : \A b \in L :
                  (\E g \in G : a \in g /\ b \in g) <=> Chained(L, a, b)
            /\ prefs.use_flat_faces =>
                  \A l \in L : ~WorkMesh.face_smooth[WorkMesh.loop_face[l]] => {l} \in G

\* the fan's vertex was handled under auto smooth: its three corners are one
\* group through a chain although the outer two faces differ by more than the
\* smoothing angle
C11_Witness ==
    /\ VertexPlace[3] \in DOMAIN iterated
    /\ prefs.use_auto_smooth /\ prefs.smooth_angle = 1
    /\ iterated[VertexPlace[3]] = {{2, 4, 6}}
    /\ QuarterTurns(mesh.face_normal[0], mesh.face_normal[2]) = 2

\* the sum of the contributions of group g of vertex v, before normalize()
GroupSum(v, g) ==
    VSum([l \in g |-> Contribution(WorkMesh, prefs, WorkMesh.vert_weight[v], l)],
         LoopSubgroup(WorkMesh, g))

MatrixApply(mw, vec) == VAdd(QuarterTurnZ(vec, mw.turns), mw.loc)

\* the orders list(set) can give the elements of S
Orders(S) ==
    {q \in [1 .. Cardinality(S) -> S] : \A i \in DOMAIN q : \A j \in DOMAIN q :
                                            i # j => q[i] # q[j]}

\* MESH_OT_YAVNEBase.poll and MESH_OT_GetNormalVector.poll
GetPoll == mode = "EDIT" /\ (Cardinality(vsel) = 1 \/ Cardinality(fsel) = 1)

\* the operator instance before execute
NewGetOperator ==
    [vertex_co |-> <<>>, normals |-> <<>>, selected_idx |-> 0, num_normals |-> 0,
     saved_show_vertex_normals |-> <<>>, saved_show_split_normals |-> <<>>,
     saved_show_face_normals |-> <<>>, post_view_handle |-> <<>>]

StoreFirstNormal(o) == <<o.normals[1]>>
\* store_vertex_normal: the normal at the selected index goes to the buffer
StoreVertexNormal(o) == <<o.normals[o.selected_idx + 1]>>

\* get_face_normal
GetFaceNormal ==
    /\ normal_buffer' = <<MatrixApply(matrix_world,
                                      mesh.face_normal[CHOOSE f \in fsel : TRUE])>>
    /\ result' = "FINISHED"
    /\ UNCHANGED <<overlay, op, draw_handlers, modal_handlers, header_text>>

\* the world space normals of the corners of the selected vertex
VertexNormals(m, mw, v) == {MatrixApply(mw, LoopFaceNormal(m, l)) : l \in LinkLoops(m, v)}

NumNormalsCheckedLate(n) == FALSE
\* if not self.num_normals: return CANCELLED, before anything is stored or hidden
NoNormals(n) == n = 0

\* get_vertex_normal
GetVertexNormal ==
    LET selected_vert == CHOOSE v \in vsel : TRUE
    IN  \E normals \in Orders(VertexNormals(mesh, matrix_world, selected_vert)) :
            LET o == [op EXCEPT !.vertex_co = <<MatrixApply(matrix_world, co[selected_vert])>>,
                                !.normals = normals,
                                !.selected_idx = 0,
                                !.num_normals = Len(normals)]
            IN  IF NoNormals(o.num_normals)
                THEN /\ op' = o
                     /\ result' = "CANCELLED"
                     /\ UNCHANGED <<normal_buffer, overlay, draw_handlers, modal_handlers,
                                    header_text>>
                ELSE IF o.num_normals = 1
                THEN /\ op' = o
                     /\ normal_buffer' = StoreVertexNormal(o)
                     /\ result' = "FINISHED"
                     /\ UNCHANGED <<overlay, draw_handlers, modal_handlers, header_text>>
                ELSE /\ op' = [o EXCEPT
                                 !.saved_show_vertex_normals = <<overlay.show_vertex_normals>>,
                                 !.saved_show_split_normals = <<overlay.show_split_normals>>,
                                 !.saved_show_face_normals = <<overlay.show_face_normals>>,
                                 !.post_view_handle = <<draw_handlers + 1>>]
                     /\ overlay' = [show_vertex_normals |-> FALSE,
                                    show_split_normals |-> FALSE,
                                    show_face_normals |-> FALSE]
                     /\ draw_handlers' = draw_handlers + 1
                     /\ modal_handlers' = modal_handlers + 1
                     /\ result' = "RUNNING_MODAL"
                     /\ UNCHANGED <<normal_buffer, header_text>>

\* MESH_OT_GetNormalVector.execute
GetExecute ==
    /\ pc = "idle"
    /\ result = "NONE"
    /\ GetPoll
    /\ IF Cardinality(fsel) = 1 THEN GetFaceNormal
       ELSE IF Cardinality(vsel) = 1 THEN GetVertexNormal
       ELSE /\ result' = "CANCELLED"
            /\ UNCHANGED <<normal_buffer, overlay, op, draw_handlers, modal_handlers,
                           header_text>>
    /\ overlay_before' = <<overlay>>
    /\ UNCHANGED <<meshVars, ctxVars, engineVars, passVars, runVars, sceneVars, pickVars,
                   transferVars, mergeVars, fsel, matrix_world>>

\* the events the window manager hands to modal
Events ==
    {[type |-> t, value |-> v] :
        t \in {"RET", "LEFT_ARROW", "RIGHT_ARROW", "ESC", "MOUSEMOVE"},
        v \in {"PRESS", "RELEASE"}}

\* show_usage: the header shows the normal at the selected index
Usage(o) == <<o.normals[o.selected_idx + 1]>>

\* modal: the index of the previous split normal
SelectPrevious(idx, n) == (idx - 1) % n

SelectNextNoWrap(idx, n) == idx + 1
\* modal: the index of the next split normal
SelectNext(idx, n) == (idx + 1) % n

FinishOverlayHidden(o) ==
    [show_vertex_normals |-> FALSE, show_split_normals |-> FALSE, show_face_normals |-> FALSE]
\* finish: the overlay flags back from the saved values
FinishOverlay(o) ==
    [show_vertex_normals |-> o.saved_show_vertex_normals[1],
     show_split_normals |-> o.saved_show_split_normals[1],
     show_face_normals |-> o.saved_show_face_normals[1]]

\* MESH_OT_GetNormalVector.modal, with finish on RET and ESC
GetModal(event) ==
    /\ result = "RUNNING_MODAL"
    /\ IF event.type = "RET" /\ event.value = "PRESS"
       THEN /\ normal_buffer' = StoreVertexNormal(op)
            /\ overlay' = FinishOverlay(op)
            /\ draw_handlers' = draw_handlers - 1
            /\ modal_handlers' = modal_handlers - 1
            /\ header_text' = <<>>
            /\ result' = "FINISHED"
            /\ UNCHANGED op
       ELSE IF event.type = "LEFT_ARROW" /\ event.value = "PRESS"
       THEN /\ op' = [op EXCEPT !.selected_idx = SelectPrevious(op.selected_idx, op.num_normals)]
            /\ header_text' = Usage(op)
            /\ UNCHANGED <<normal_buffer, overlay, draw_handlers, modal_handlers, result>>
       ELSE IF event.type = "RIGHT_ARROW" /\ event.value = "PRESS"
       THEN /\ op' = [op EXCEPT !.selected_idx = SelectNext(op.selected_idx, op.num_normals)]
            /\ header_text' = Usage(op)
            /\ UNCHANGED <<normal_buffer, overlay, draw_handlers, modal_handlers, result>>
       ELSE IF event.type = "ESC"
       THEN /\ overlay' = FinishOverlay(op)
            /\ draw_handlers' = draw_handlers - 1
            /\ modal_handlers' = modal_handlers - 1
            /\ header_text' = <<>>
            /\ result' = "CANCELLED"
            /\ UNCHANGED <<normal_buffer, op>>
       ELSE /\ header_text' = Usage(op)
            /\ UNCHANGED <<normal_buffer, overlay, op, draw_handlers, modal_handlers, result>>
    /\ UNCHANGED <<meshVars, ctxVars, engineVars, passVars, extraVars, mergeVars, fsel, matrix_world>>

(***************************************************************************)
(* The small meshes under the serial pass, or with one vertex or one face  *)
(* selected under GetNormalVector.                                         *)
(***************************************************************************)
\* the selections poll admits: one vertex, or one face with its vertices
Selections(m) ==
    {[verts |-> {v}, faces |-> {}] : v \in {VertexPlace[1], LooseVertex, VertexPlace[3]}}
    \cup {[verts |-> {m.loop_vert[l] : l \in {k \in Loops(m) : m.loop_face[k] = f}},
           faces |-> {f}] : f \in {1}}

Overlays ==
    {[show_vertex_normals |-> TRUE, show_split_normals |-> b, show_face_normals |-> ~b] :
        b \in BOOLEAN}

MatrixWorlds == {[turns |-> 0, loc |-> ZeroVec], [turns |-> 1, loc |-> <<2, 0, 0>>]}

InitVertex ==
    /\ os_name = "posix"
    /\ mode = "EDIT"
    /\ show_edge_sharp = FALSE
    /\ pc = "idle"
    /\ bm = <<>>
    /\ split_normals = <<>>
    /\ procs = <<>>
    /\ proc = <<>>
    /\ joining = -1
    /\ writers = <<>>
    /\ commits = 0
    /\ iterated = <<>>
    /\ distance = 1
    /\ unselected = FALSE
    /\ cells = <<>>
    /\ selected_verts = {}
    /\ loop_normals = <<>>
    /\ clusters = <<>>
    /\ normal_buffer = <<>>
    /\ op = NewGetOperator
    /\ draw_handlers = 0
    /\ modal_handlers = 0
    /\ header_text = <<>>
    /\ result = "NONE"
    /\ InitSession
    /\ mesh \in VertexMeshes
    /\ co = [v \in 0 .. mesh.nverts - 1 |-> <<v, 0, 0>>]
    /\ \/ /\ prefs \in VertexPrefs
          /\ vsel = {} /\ fsel = {}
          /\ matrix_world = [turns |-> 0, loc |-> ZeroVec]
          /\ overlay = [show_vertex_normals |-> FALSE, show_split_normals |-> FALSE,
                        show_face_normals |-> FALSE]
       \/ /\ prefs = [use_linked_face_weights |-> FALSE, link_angle |-> 1,
                      use_auto_smooth |-> TRUE, smooth_angle |-> 1, use_flat_faces |-> FALSE]
          /\ mesh.vert_weight[VertexPlace[1]] = "ANGLE"
          /\ \A e \in mesh.links : e.smooth
          /\ \A f \in Faces(mesh) : mesh.face_smooth[f]
          /\ \E sel \in Selections(mesh) : vsel = sel.verts /\ fsel = sel.faces
          /\ matrix_world \in MatrixWorlds
          /\ overlay \in Overlays

NextVertex ==
    \/ Prepare
    \/ SerialCall
    \/ SerialStep
    \/ SerialReturn
    \/ Commit
    \/ GetExecute
    \/ \E event \in Events : GetModal(event)

SpecVertex == InitVertex /\ [][NextVertex]_vars

(***************************************************************************)
(* Vertices without corners (specification SpecVertex).                    *)
(***************************************************************************)
\* the step is the loop body of worker for a vertex that has no corner
LooseWorkerStep ==
    /\ pc = "serial"
    /\ proc' # proc
    /\ LinkLoops(BM, proc[0].idx) = {}

\* the step is execute of GetNormalVector with one vertex selected that has no corner
LooseGetStep ==
    /\ result = "NONE"
    /\ result' # "NONE"
    /\ Cardinality(fsel) # 1
    /\ \E v \in vsel : vsel = {v} /\ LinkLoops(mesh, v) = {}

\* C12: a vertex without corners is no error.  In worker it has no shading
\* group, its pass through the loop body writes no slot and the loop goes on
\* to the next vertex, so that worker still returns with every corner slot
\* written.  In GetNormalVector it returns CANCELLED and leaves the normal
\* buffer, the overlay flags, the draw handlers, the modal handlers and the
\* mesh as they were.
C12_LooseVertexNoError ==
    /\ [](\A v \in DOMAIN iterated : LinkLoops(WorkMesh, v) = {} => iterated[v] = {})
    /\ [](pc \in {"computed", "done"} =>
             /\ DOMAIN iterated = 0 .. WorkMesh.nverts - 1
             /\ \A l \in Loops(WorkMesh) : Len(writers[l]) = 1)
    /\ [][LooseWorkerStep =>
             /\ split_normals' = split_normals
             /\ writers' = writers
             /\ pc' = "serial"
             /\ proc'[0].idx = proc[0].idx + 1]_vars
    /\ [][LooseGetStep =>
             /\ result' = "CANCELLED"
             /\ normal_buffer' = normal_buffer
             /\ overlay' = overlay
             /\ draw_handlers' = draw_handlers
             /\ modal_handlers' = modal_handlers
             /\ mesh' = mesh]_vars

\* GetNormalVector was cancelled on the loose vertex while the overlay showed
\* normals, and a pass over the mesh has since handled the loose vertex and
\* written the corners of the vertices after it
C12_Witness ==
    /\ result = "CANCELLED"
    /\ vsel = {LooseVertex}
    /\ op.num_normals = 0
    /\ overlay.show_vertex_normals
    /\ normal_buffer = <<>>
    /\ pc = "done"
    /\ iterated[LooseVertex] = {}
    /\ \E l \in Loops(mesh) :
          mesh.loop_vert[l] > LooseVertex /\ mesh.split_normal[l] # ZeroVec

(***************************************************************************)
(* The engine with workers that can end abnormally: a worker process dies  *)
(* at any point of its loop, between two vertices or between two groups of *)
(* one vertex.  execute never looks at a process's exit code.              *)
(***************************************************************************)
\* the output after the loop body wrote only the groups of 'written' for vertex idx
WorkerVertexPart(m, pr, out, idx, written) ==
    [l \in DOMAIN out |->
        IF \E g \in written : l \in g THEN WorkerVertex(m, pr, out, idx)[l] ELSE out[l]]

\* process p dies: before its next vertex, or having written some of its groups
WorkerCrash(p) ==
    /\ proc[p].state = "running"
    /\ \E written \in SUBSET (IF proc[p].idx < proc[p].last
                              THEN VertexGroups(BM, prefs, proc[p].idx) ELSE {}) :
          /\ split_normals' = WorkerVertexPart(BM, prefs, split_normals, proc[p].idx, written)
          /\ writers' = [l \in DOMAIN writers |->
                           IF \E g \in written : l \in g
                           THEN Append(writers[l], proc[p].chunk) ELSE writers[l]]
    /\ proc' = [proc EXCEPT ![p].state = "crashed"]
    /\ UNCHANGED <<meshVars, ctxVars, pc, bm, procs, joining, commits, opVars>>

InitCrash ==
    /\ mesh \in {m \in EngineMeshes :
                    /\ m.nverts > ParallelThreshold
                    /\ m.vert_weight[m.loop_vert[0]] = "ANGLE"
                    /\ m.loop_normal[1] # m.loop_normal[0]}
    /\ prefs \in EnginePrefs
    /\ os_name = "java"
    /\ InitEngine

\* the steps of the parallel path, and a worker ending abnormally
NextCrash ==
    \/ Prepare
    \/ CreateTeam
    \/ StartProc
    \/ \E p \in DOMAIN proc : WorkerStep(p)
    \/ \E p \in DOMAIN proc : WorkerExit(p)
    \/ \E p \in DOMAIN proc : WorkerCrash(p)
    \/ JoinPop
    \/ JoinReturn
    \/ Commit
    \/ Teardown

SpecCrash == InitCrash /\ [][NextCrash]_vars

\* the chunk whose range holds the vertex of corner l
OwnerChunk(l) ==
    CHOOSE c \in DOMAIN proc :
        WorkMesh.loop_vert[l] \in ChunkIndices(c, Total, WorkMesh.nverts)

\* C14: when workers ended abnormally, the slots they had not written keep
\* the zero vector of the fresh buffer and nobody else writes them (no retry);
\* every other slot holds what its own worker wrote, the value of the serial
\* pass, and a worker that did not end abnormally leaves none of its slots
\* unwritten; join returns for a worker that ended abnormally, and execute
\* commits the buffer as it is.
C14_CrashedWorkerSlots ==
    /\ \A l \in DOMAIN writers :
          /\ writers[l] = <<>> => split_normals[l] = ZeroVec
          /\ writers[l] # <<>> =>
                /\ writers[l] = <<OwnerChunk(l)>>
                /\ split_normals[l] =
                      Worker(WorkMesh, prefs, NewSharedArray(WorkMesh), 0, 1)[l]
    /\ pc \in {"computed", "done"} =>
          \A l \in DOMAIN writers :
              writers[l] = <<>> => proc[OwnerChunk(l)].state = "crashed"
    /\ (pc = "joining" /\ joining # -1 /\ proc[joining].state = "crashed") => ENABLED JoinReturn
    /\ pc = "computed" => ENABLED Commit
    /\ pc = "done" => commits = 1 /\ mesh.split_normal = split_normals

\* execute has committed after one of two workers died part-way: the mesh has
\* corners left at the zero vector and corners the other worker wrote
C14_Witness ==
    /\ pc = "done"
    /\ \E p \in DOMAIN proc : \E q \in DOMAIN proc :
          /\ proc[p].state = "crashed" /\ proc[q].state = "exited"
          /\ \E a \in Loops(mesh) : \E b \in Loops(mesh) : \E c \in Loops(mesh) :
                /\ OwnerChunk(a) = p /\ writers[a] = <<>> /\ mesh.split_normal[a] = ZeroVec
                /\ OwnerChunk(b) = p /\ writers[b] = <<p>> /\ mesh.split_normal[b] # ZeroVec
                /\ OwnerChunk(c) = q /\ writers[c] = <<q>> /\ mesh.split_normal[c] # ZeroVec

(***************************************************************************)
(* MESH_OT_MergeVertexNormals.execute.  Coordinates and the distance are   *)
(* integers, multiples of one lattice unit, on which the float operations  *)
(* of the code (floor division, difference, squared length) are exact.     *)
(* The loop normals read at line 689 are the mesh's split normals.         *)
(***************************************************************************)
VSub(a, b) == <<a[1] - b[1], a[2] - b[2], a[3] - b[3]>>

\* Vector.length_squared
LengthSquared(a) == a[1] * a[1] + a[2] * a[2] + a[3] * a[3]

\* (int(co.x // distance), int(co.y // distance), int(co.z // distance))
CellOf(c, d) == <<c[1] \div d, c[2] \div d, c[3] \div d>>

IndexedVertsAlways(m, sel, unsel) == 0 .. m.nverts - 1
\* for v in (bm.verts if self.unselected else selected_verts)
IndexedVerts(m, sel, unsel) == IF unsel THEN 0 .. m.nverts - 1 ELSE sel

\* cells after the loop of lines 671-684: the vertices of each cell in use
BuildCells(S, pos, d) ==
    [c \in {CellOf(pos[v], d) : v \in S} |-> {v \in S : CellOf(pos[v], d) = c}]

ScanRangeNoLower(x) == x .. x + 1
ScanRangeNoUpper(x) == x - 1 .. x
\* for i in [x - 1, x, x + 1]
ScanRange(x) == x - 1 .. x + 1

\* the vertices of the 27 cells around cell c that are in use
NearbyVerts(cs, c) ==
    UNION {cs[n] : n \in {k \in DOMAIN cs : /\ k[1] \in ScanRange(c[1])
                                             /\ k[2] \in ScanRange(c[2])
                                             /\ k[3] \in ScanRange(c[3])}}

\* mergeable_verts of the seed v_curr
MergeableVerts(cs, pos, v_curr, d) ==
    {v \in NearbyVerts(cs, CellOf(pos[v_curr], d)) :
        LengthSquared(VSub(pos[v], pos[v_curr])) <= d * d}

LoopNormalsReadLive(m, snapshot) == m.loop_normal
\* loop_normals[idx:idx + 3] in the loop: the list filled once by foreach_get
LoopNormalsRead(m, snapshot) == snapshot

\* v_curr_normal_count: the distinct loop normals of the seed's corners
NormalCount(m, ln, v) == Cardinality({ln[l] : l \in LinkLoops(m, v)})

\* vn of one vertex of the cluster: its loop normals summed and normalized
VertNormal(m, ln, v) == Normalize(VSum(ln, LinkLoops(m, v)))

\* vn_local: the vertex normals of the cluster summed and normalized
MergedNormal(m, ln, cluster) ==
    Normalize(VSum([v \in cluster |-> VertNormal(m, ln, v)], cluster))

WritesClusterAlways(count, n) == TRUE
\* if v_curr_normal_count > 1 or len(mergeable_verts) > 1
WritesCluster(count, n) == count > 1 \/ n > 1

\* lines 727-733: every vertex of the cluster becomes UNWEIGHTED and every one
\* of its corners gets the merged normal in the corner's loop space
MergeWrite(m, cluster, vn_local) ==
    [m EXCEPT !.vert_weight = [v \in DOMAIN m.vert_weight |->
                                  IF v \in cluster THEN "UNWEIGHTED" ELSE m.vert_weight[v]],
              !.loop_normal = [l \in Loops(m) |->
                                  IF m.loop_vert[l] \in cluster
                                  THEN LoopSpaceTransform(m, l, vn_local, FALSE)
                                  ELSE m.loop_normal[l]]]

PendingKeepsSeed(pending, v_curr, cluster, sel) == pending \ ((cluster \cap sel) \ {v_curr})
\* selected_verts after pop() and difference_update(local_selection)
PendingAfter(pending, v_curr, cluster, sel) == (pending \ {v_curr}) \ (cluster \cap sel)

\* MESH_OT_MergeVertexNormals.poll
MergePoll == mode = "EDIT" /\ vsel # {}

\* lines 645-689: the layers, the cells, the pending set, the loop normals
MergeBuild ==
    /\ pc = "idle"
    /\ MergePoll
    /\ cells' = BuildCells(IndexedVerts(mesh, vsel, unselected), co, distance)
    /\ selected_verts' = vsel
    /\ loop_normals' = mesh.split_normal
    /\ clusters' = <<>>
    /\ pc' = "merging"
    /\ UNCHANGED <<meshVars, ctxVars, bm, split_normals, procs, proc, joining, writers,
                   commits, passVars, extraVars, co, vsel, distance, unselected, getVars>>

\* the operator is invoked once more, with the distance and selection as they are
MergeAgain ==
    /\ pc = "merged"
    /\ invocations < MaxInvocations
    /\ MergePoll
    /\ cells' = BuildCells(IndexedVerts(mesh, vsel, unselected), co, distance)
    /\ selected_verts' = vsel
    /\ loop_normals' = mesh.split_normal
    /\ clusters' = <<>>
    /\ pc' = "merging"
    /\ UNCHANGED <<meshVars, ctxVars, bm, split_normals, procs, proc, joining, writers,
                   commits, passVars, extraVars, co, vsel, distance, unselected, getVars>>

\* one pass through the body of  while selected_verts
MergeIterate ==
    /\ pc = "merging"
    /\ \E v_curr \in selected_verts :
       \E mergeable_verts \in {MergeableVerts(cells, co, v_curr, distance)} :
       \E count \in {NormalCount(mesh, LoopNormalsRead(mesh, loop_normals), v_curr)} :
       \E vn_local \in {MergedNormal(mesh, LoopNormalsRead(mesh, loop_normals),
                                       mergeable_verts)} :
       \E wrote \in {WritesCluster(count, Cardinality(mergeable_verts))} :
              /\ mesh' = IF wrote THEN MergeWrite(mesh, mergeable_verts, vn_local) ELSE mesh
              /\ selected_verts' = PendingAfter(selected_verts, v_curr, mergeable_verts, vsel)
              /\ clusters' = Append(clusters, [seed |-> v_curr, members |-> mergeable_verts,
                                               count |-> count, normal |-> vn_local,
                                               wrote |-> wrote])
    /\ UNCHANGED <<prefs, os_name, ctxVars, engineVars, passVars, extraVars, co, vsel, distance,
                   unselected, cells, loop_normals, getVars>>

\* bpy.ops.mesh.yavne_update_vertex_normals() on a mesh below the threshold
UpdateVertexNormalsCall(m, pr) ==
    NormalsSplitCustomSet(m, Worker(m, pr, NewSharedArray(m), 0, 1))

\* the loop has ended: the recompute pass, update_edit_mesh, return FINISHED
MergeFinish ==
    /\ pc = "merging"
    /\ selected_verts = {}
    /\ ~UseParallel(mesh, os_name)
    /\ mesh' = UpdateVertexNormalsCall(mesh, prefs)
    /\ show_edge_sharp' = TRUE
    /\ commits' = commits + 1
    /\ pc' = "merged"
    /\ invocations' = invocations + 1
    /\ first_result' = IF invocations = 0 THEN <<mesh'>> ELSE first_result
    /\ UNCHANGED <<prefs, os_name, mode, bm, split_normals, procs, proc, joining, writers,
                   passVars, sceneVars, pickVars, transferVars, overlay_before, mergeVars,
                   getVars>>

NextMerge ==
    \/ MergeBuild
    \/ MergeIterate
    \/ MergeFinish

(***************************************************************************)
(* Meshes of the merge model: two triangles over the vertices 0..3 and the *)
(* loose vertex 4.  The loop normals of one vertex are equal or opposite,  *)
(* so that a vertex's own normalized sum is an axis vector or zero.        *)
(***************************************************************************)
MergeNormalPattern(p, v, f) ==
    IF p = 2 /\ f = 1 THEN VNeg(AxisSeq[(v % 3) + 1]) ELSE AxisSeq[(v % 3) + 1]

MergeMesh(p) ==
    LET base == StripMesh(5, <<0, 1, 2, 3>>, 2,
                          [k \in 1 .. 4 |-> "UNIFORM"],
                          [f \in 0 .. 1 |-> 0],
                          [f \in 0 .. 1 |-> AxisSeq[1]],
                          [i \in 0 .. 0 |-> TRUE],
                          1)
    IN  [base EXCEPT
            !.vert_weight = [v \in 0 .. 4 |-> ModeSeq[(v % 4) + 1]],
            !.split_normal = [l \in Loops(base) |->
                                 MergeNormalPattern(p, base.loop_vert[l], base.loop_face[l])]]

MergePrefs ==
    [use_linked_face_weights |-> FALSE, link_angle |-> 1,
     use_auto_smooth |-> FALSE, smooth_angle |-> 1, use_flat_faces |-> FALSE]

\* no operator has been called: the engine, the merge loop and GetNormalVector at rest
InitIdle ==
    /\ prefs = MergePrefs
    /\ os_name = "posix"
    /\ mode = "EDIT"
    /\ show_edge_sharp = FALSE
    /\ pc = "idle"
    /\ bm = <<>>
    /\ split_normals = <<>>
    /\ procs = <<>>
    /\ proc = <<>>
    /\ joining = -1
    /\ writers = <<>>
    /\ commits = 0
    /\ iterated = <<>>
    /\ cells = <<>>
    /\ selected_verts = {}
    /\ loop_normals = <<>>
    /\ clusters = <<>>
    /\ fsel = {}
    /\ matrix_world = [turns |-> 0, loc |-> ZeroVec]
    /\ overlay = [show_vertex_normals |-> FALSE, show_split_normals |-> FALSE,
                  show_face_normals |-> FALSE]
    /\ normal_buffer = <<>>
    /\ op = <<>>
    /\ draw_handlers = 0
    /\ modal_handlers = 0
    /\ header_text = <<>>
    /\ result = "NONE"

\* the state all merge models start from, but for positions, selection and options
InitMergeCommon ==
    /\ InitIdle
    /\ InitSession

\* the places of the vertices of the merge model along the x axis
MergeCoords == {-MaxDist, 0, MaxDist}

\* every vertex at any of three places of the x axis
InitMerge ==
    /\ InitMergeCommon
    /\ mesh \in {MergeMesh(p) : p \in 1 .. 2}
    /\ \E xs \in [0 .. 4 -> MergeCoords] : co = [v \in 0 .. 4 |-> <<xs[v], 0, 0>>]
    /\ vsel \in {0 .. 4, {0, 2, 4}, {1}}
    /\ distance \in 1 .. MaxDist
    /\ unselected \in BOOLEAN

SpecMerge == InitMerge /\ [][NextMerge]_vars

\* the vertices in the order of their places, all or every other one selected
InitLoop ==
    /\ InitMergeCommon
    /\ mesh = MergeMesh(1)
    /\ \E xs \in {f \in [0 .. 4 -> MergeCoords] : \A v \in 0 .. 3 : f[v] <= f[v + 1]} :
          co = [v \in 0 .. 4 |-> <<xs[v], 0, 0>>]
    /\ vsel \in {0 .. 4, {0, 2, 4}}
    /\ distance \in 1 .. MaxDist
    /\ unselected \in BOOLEAN

\* the operator invoked on the same mesh several times in a row
NextTwice ==
    \/ MergeBuild
    \/ MergeIterate
    \/ MergeFinish
    \/ MergeAgain

SpecTwice == InitLoop /\ [][NextTwice]_vars

\* what one pass through the body of the loop does to the pending set
PendingStep ==
    /\ pc = "merging"
    /\ \E v_curr \in selected_verts :
          selected_verts' = PendingAfter(selected_verts, v_curr,
                                         MergeableVerts(cells, co, v_curr, distance), vsel)

\* while vertices are pending the loop goes on: Python runs execute to its
\* end.  The steps of NextMerge that are PendingStep steps are those of
\* MergeIterate, and the two actions are enabled in the same states.
SpecLoop == InitLoop /\ [][NextMerge]_vars /\ WF_selected_verts(PendingStep)

\* the seed's coordinates of the query model: the cell borders around the origin
SeedCoords(d) == {-d, -1, 0, d - 1, d}

\* a place out of reach of every other vertex of the query model
FarAway(k) == <<4 * k * (MaxCoord + MaxDist), 0, 0>>

\* vertex 0, selected, near the origin; vertex 1 anywhere around it; the rest far away
InitQuery ==
    /\ InitMergeCommon
    /\ mesh = MergeMesh(1)
    /\ distance \in 1 .. MaxDist
    /\ \E sx \in SeedCoords(distance) : \E sy \in SeedCoords(distance) :
       \E qx \in -MaxCoord .. MaxCoord : \E qy \in -MaxCoord .. MaxCoord : \E qz \in -1 .. 1 :
          co = [v \in 0 .. 4 |-> IF v = 0 THEN <<sx, sy, 0>>
                                ELSE IF v = 1 THEN <<qx, qy, qz>> ELSE FarAway(v)]
    /\ vsel \in {{0}, {0, 1}}
    /\ unselected \in BOOLEAN

SpecQuery == InitQuery /\ [][NextMerge]_vars

\* the vertices of the indexed set within the merge distance of vertex v
WithinDistance(v) ==
    {u \in (IF unselected THEN 0 .. mesh.nverts - 1 ELSE vsel) :
        (co[u][1] - co[v][1]) * (co[u][1] - co[v][1])
      + (co[u][2] - co[v][2]) * (co[u][2] - co[v][2])
      + (co[u][3] - co[v][3]) * (co[u][3] - co[v][3]) <= distance * distance}

\* C15: the cluster of every popped seed v is exactly the set of the indexed
\* vertices (the selected ones, or all with 'unselected') whose squared
\* distance to v is at most the squared merge distance: the scan of the 27
\* cells misses none of them, also with negative coordinates and on cell
\* borders, admits none farther away, and the cluster contains v itself.
C15_ClusterIsBall ==
    \A i \in DOMAIN clusters :
        /\ clusters[i].members = WithinDistance(clusters[i].seed)
        /\ clusters[i].seed \in clusters[i].members

\* a seed with a negative coordinate whose cluster has a member of a lower
\* cell at exactly the merge distance, on the border of that cell
C15_Witness ==
    \E i \in DOMAIN clusters :
        /\ clusters[i].seed = 0
        /\ co[0][1] < 0
        /\ 1 \in clusters[i].members
        /\ co[1][1] = co[0][1] - distance
        /\ co[1][2] = co[0][2] /\ co[1][3] = co[0][3]
        /\ co[1][1] % distance = 0
        /\ co[1][1] \div distance = (co[0][1] \div distance) - 1

\* the processed clusters vertex v is a member of, and those that wrote it
ClustersOf(v) == {i \in DOMAIN clusters : v \in clusters[i].members}
WritingClustersOf(v) == {i \in ClustersOf(v) : clusters[i].wrote}

\* C16: every initially selected vertex is resolved exactly once: it is never
\* a member of two processed clusters, after the loop it is a member of
\* exactly one, and its weight mode and loop normals are assigned by at most
\* one cluster.
C16_ResolvedOnce ==
    \A v \in vsel :
        /\ Cardinality(ClustersOf(v)) <= 1
        /\ pc = "merged" => Cardinality(ClustersOf(v)) = 1
        /\ Cardinality(WritingClustersOf(v)) <= 1

\* C17: the merge loop terminates: an iteration removes at least the popped
\* seed from the pending set and adds nothing to it, the iterations done and
\* the vertices pending never exceed the selected vertices together, and the
\* loop ends with the pending set empty after at most that many iterations.
C17_LoopTerminates ==
    /\ [](Len(clusters) + Cardinality(selected_verts) <= Cardinality(vsel))
    /\ [][Len(clusters') = Len(clusters) + 1 =>
             /\ clusters'[Len(clusters')].seed \in selected_verts
             /\ selected_verts' \subseteq selected_verts \ {clusters'[Len(clusters')].seed}]_vars
    /\ (pc = "merging") ~> (/\ selected_verts = {}
                            /\ Len(clusters) <= Cardinality(vsel))

\* the loop has ended after as many iterations as there are selected
\* vertices, three or more of them
C17_Witness ==
    /\ pc = "merged"
    /\ selected_verts = {}
    /\ Cardinality(vsel) >= 3
    /\ Len(clusters) = Cardinality(vsel)

\* the corners of vertices u and v all carry vector n in their own loop space
CarryNormal(u, v, n) ==
    \A l \in LinkLoops(mesh, u) \cup LinkLoops(mesh, v) :
        mesh.loop_normal[l] = LoopSpaceTransform(mesh, l, n, FALSE)

\* C18: after the operator has finished, any two selected vertices within the
\* merge distance of each other are both UNWEIGHTED and all corners of both
\* carry one and the same merged normal, each in its own loop space.
C18_NearbySelectedAgree ==
    pc = "merged" =>
        \A u \in vsel : \A v \in (vsel \cap WithinDistance(u)) \ {u} :
            /\ mesh.vert_weight[u] = "UNWEIGHTED"
            /\ mesh.vert_weight[v] = "UNWEIGHTED"
            /\ \E i \in DOMAIN clusters : CarryNormal(u, v, clusters[i].normal)

\* the number of distinct loop normals on the corners of vertex v
UniqueNormals(v) ==
    Cardinality({loop_normals[l] : l \in {k \in Loops(mesh) : mesh.loop_vert[k] = v}})

\* the iteration that recorded cluster c wrote it: c is marked written, and
\* after the step its members are UNWEIGHTED and their corners carry its normal
ClusterWritten(c) ==
    /\ c.wrote
    /\ \A v \in c.members :
          /\ mesh'.vert_weight[v] = "UNWEIGHTED"
          /\ \A l \in LinkLoops(mesh, v) :
                mesh'.loop_normal[l] = LoopSpaceTransform(mesh, l, c.normal, FALSE)

\* the iteration that recorded cluster c left the mesh as it was
ClusterSkipped(c) == ~c.wrote /\ mesh' = mesh

\* C19 (as the code has it): the write for a cluster is skipped if and only if
\* the seed has at most one unique normal across its own corners (none, for a
\* seed without corners) and the cluster has exactly one member; in every
\* other case every member is promoted to UNWEIGHTED and gets the merged
\* normal on its corners.
C19_SkipIffNothingToMerge ==
    [][Len(clusters') = Len(clusters) + 1 =>
          LET c == clusters'[Len(clusters')]
          IN  IF UniqueNormals(c.seed) <= 1 /\ Cardinality(c.members) = 1
              THEN ClusterSkipped(c)
              ELSE ClusterWritten(c)]_vars

\* C19 (as claimed): the write is skipped if and only if the seed has exactly
\* one unique normal and the cluster has exactly one member; in every other
\* case, a seed without corners included, the write is performed.
C19_SkipIffOneNormal ==
    [][Len(clusters') = Len(clusters) + 1 =>
          LET c == clusters'[Len(clusters')]
          IN  IF UniqueNormals(c.seed) = 1 /\ Cardinality(c.members) = 1
              THEN ClusterSkipped(c)
              ELSE ClusterWritten(c)]_vars

\* one run has skipped the lone seed without corners, which kept its weight,
\* skipped a lone seed with one normal, and written a lone seed with two
C19_Witness ==
    /\ \E i \in DOMAIN clusters :
          /\ clusters[i].members = {clusters[i].seed}
          /\ LinkLoops(mesh, clusters[i].seed) = {}
          /\ clusters[i].count = 0
          /\ ~clusters[i].wrote
          /\ mesh.vert_weight[clusters[i].seed] # "UNWEIGHTED"
    /\ \E i \in DOMAIN clusters :
          /\ clusters[i].members = {clusters[i].seed}
          /\ clusters[i].count = 1
          /\ ~clusters[i].wrote
    /\ \E i \in DOMAIN clusters :
          /\ clusters[i].members = {clusters[i].seed}
          /\ clusters[i].count = 2
          /\ clusters[i].wrote
          /\ mesh.vert_weight[clusters[i].seed] = "UNWEIGHTED"

\* the step changes the weight mode of vertex v or the loop normal of a corner of v
Modified(v) ==
    \/ mesh'.vert_weight[v] # mesh.vert_weight[v]
    \/ \E l \in LinkLoops(mesh, v) : mesh'.loop_normal[l] # mesh.loop_normal[l]

\* the cluster normal the selected vertices within the distance of seed v give
SelectedNormal(v) ==
    LET near == vsel \cap WithinDistance(v)
        own == [u \in near |-> Normalize(VSum(loop_normals, LinkLoops(mesh, u)))]
    IN  Normalize(VSum(own, near))

\* C20: without 'unselected' the clusters hold selected vertices only, every
\* cluster normal is the one its selected vertices give, and no step changes
\* the weight mode or a loop normal of an unselected vertex; with 'unselected'
\* a step changes an unselected vertex only when it is an iteration whose
\* popped seed is selected and has the vertex within the merge distance.
C20_UnselectedFrame ==
    /\ [](~unselected =>
             \A i \in DOMAIN clusters :
                 /\ clusters[i].members \subseteq vsel
                 /\ clusters[i].normal = SelectedNormal(clusters[i].seed))
    /\ [][\A v \in (0 .. mesh.nverts - 1) \ vsel :
             Modified(v) =>
                 /\ unselected
                 /\ Len(clusters') = Len(clusters) + 1
                 /\ clusters'[Len(clusters')].seed \in vsel
                 /\ v \in WithinDistance(clusters'[Len(clusters')].seed)]_vars

\* with 'unselected', the loop has promoted an unselected vertex within the
\* distance of a seed and has left alone one that is within the distance of none
C20_Witness ==
    /\ unselected
    /\ pc = "merged"
    /\ \E v \in (0 .. mesh.nverts - 1) \ vsel :
          /\ mesh.vert_weight[v] = "UNWEIGHTED"
          /\ \E i \in DOMAIN clusters : v \in clusters[i].members /\ clusters[i].wrote
    /\ \E w \in (0 .. mesh.nverts - 1) \ vsel :
          /\ mesh.vert_weight[w] # "UNWEIGHTED"
          /\ \A i \in DOMAIN clusters : w \notin clusters[i].members

\* C21: merge is idempotent: when the operator has been invoked a second time
\* with the same distance and selection, every vertex's weight mode, every
\* corner's loop normal and every committed split normal is as the first
\* invocation left it, whatever the order of the seeds.
C21_MergeIdempotent ==
    (pc = "merged" /\ invocations = 2) =>
        /\ mesh.vert_weight = first_result[1].vert_weight
        /\ mesh.loop_normal = first_result[1].loop_normal
        /\ mesh.split_normal = first_result[1].split_normal

\* the cluster execute computes for seed v when the distance is d
ClusterAt(v, d) ==
    MergeableVerts(BuildCells(IndexedVerts(mesh, vsel, unselected), co, d), co, v, d)

\* C22: for the indexed vertex set as it is and any popped seed, the cluster
\* computed with a smaller distance is a subset of the cluster computed with
\* a larger one: the cluster of the run contains the cluster of every
\* distance below the run's and is contained in that of every distance above.
C22_ClusterMonotone ==
    \A i \in DOMAIN clusters : \A d \in 1 .. MaxDist + 1 :
        /\ d <= distance => ClusterAt(clusters[i].seed, d) \subseteq clusters[i].members
        /\ distance <= d => clusters[i].members \subseteq ClusterAt(clusters[i].seed, d)

\* a member shares the seed's cell at the run's distance, is in another cell
\* at the next distance, where it is still in the cluster, and is outside the
\* cluster of a smaller distance
C22_Witness ==
    \E i \in DOMAIN clusters :
        /\ clusters[i].seed = 0
        /\ 1 \in clusters[i].members
        /\ co[1] # co[0]
        /\ CellOf(co[1], distance) = CellOf(co[0], distance)
        /\ CellOf(co[1], distance + 1) # CellOf(co[0], distance + 1)
        /\ 1 \in ClusterAt(0, distance + 1)
        /\ distance > 1
        /\ 1 \notin ClusterAt(0, 1)

(***************************************************************************)
(* VIEW3D_OT_PickShadingSource and MESH_OT_TransferShading.  scene.objects *)
(* and bpy.data.objects are one table of objects by name.  An object is    *)
(* visible when it is neither disabled in viewports (hide_viewport) nor    *)
(* hidden in the view layer.  What utils.pick_object hits is any one of    *)
(* the available sources, or nothing.                                      *)
(***************************************************************************)
\* context.edit_object
EditObject == "edit"

\* obj.visible_get()
VisibleGet(o) == ~o.hide_viewport /\ ~o.hide_layer

\* self.available_sources
AvailableSources(objs) ==
    {n \in DOMAIN objs : objs[n].type = "MESH" /\ n # EditObject /\ ~objs[n].hide_viewport}

\* self.temporarily_hidden_objects
TemporarilyHidden(objs) ==
    {n \in DOMAIN objs : (objs[n].type # "MESH" /\ VisibleGet(objs[n])) \/ n = EditObject}

\* for obj in self.temporarily_hidden_objects: obj.hide_viewport = True
Hidden(objs, names) ==
    [n \in DOMAIN objs |-> IF n \in names THEN [objs[n] EXCEPT !.hide_viewport = TRUE]
                           ELSE objs[n]]

\* for obj in self.temporarily_hidden_objects: obj.hide_viewport = False
Revealed(objs, names) ==
    [n \in DOMAIN objs |-> IF n \in names THEN [objs[n] EXCEPT !.hide_viewport = FALSE]
                           ELSE objs[n]]

\* the operator instance before execute
NewPickOperator ==
    [state |-> "NONE", initially_in_edit_mode |-> FALSE, available_sources |-> {},
     temporarily_hidden_objects |-> {}]

\* the header text execute sets
PickUsage == <<"LMB: Pick, Escape: Cancel">>

\* MESH_OT_PickShadingSource.execute
PickExecute ==
    /\ pick.state = "NONE"
    /\ transfer_result = "NONE"
    /\ mode = "EDIT"
    /\ scene_before' = <<[objects |-> objects, mode |-> mode]>>
    /\ mode' = "OBJECT"
    /\ mode_sets' = mode_sets + 1
    /\ pick' = [state |-> "RUNNING_MODAL",
                initially_in_edit_mode |-> mode = "EDIT",
                available_sources |-> AvailableSources(objects),
                temporarily_hidden_objects |-> TemporarilyHidden(objects)]
    /\ objects' = Hidden(objects, TemporarilyHidden(objects))
    /\ header_text' = PickUsage
    /\ modal_handlers' = modal_handlers + 1
    /\ UNCHANGED <<meshVars, show_edge_sharp, engineVars, passVars, mergeVars, fsel,
                   matrix_world, overlay, normal_buffer, op, draw_handlers, result,
                   runVars, source, finishes, overlay_before, reports, transfer_result>>

\* the events the window manager hands to modal
PickEvents ==
    {[type |-> t, value |-> v] :
        t \in {"LEFTMOUSE", "ESC", "MOUSEMOVE"}, v \in {"PRESS", "RELEASE"}}

\* MESH_OT_PickShadingSource.finish, and the modal handler gone with the return
PickFinish ==
    /\ objects' = Revealed(objects, pick.temporarily_hidden_objects)
    /\ mode' = IF pick.initially_in_edit_mode THEN "EDIT" ELSE mode
    /\ mode_sets' = IF pick.initially_in_edit_mode THEN mode_sets + 1 ELSE mode_sets
    /\ header_text' = <<>>
    /\ finishes' = finishes + 1
    /\ modal_handlers' = modal_handlers - 1

\* MESH_OT_PickShadingSource.modal
PickModal(event) ==
    /\ pick.state = "RUNNING_MODAL"
    /\ IF event.type = "LEFTMOUSE" /\ event.value = "PRESS"
       THEN /\ \E hit \in pick.available_sources \cup {""} : source' = hit
            /\ PickFinish
            /\ pick' = [pick EXCEPT !.state = "FINISHED"]
       ELSE IF event.type = "ESC"
       THEN /\ PickFinish
            /\ pick' = [pick EXCEPT !.state = "CANCELLED"]
            /\ UNCHANGED source
       ELSE UNCHANGED <<objects, mode, mode_sets, header_text, finishes, modal_handlers,
                        pick, source>>
    /\ UNCHANGED <<meshVars, show_edge_sharp, engineVars, passVars, mergeVars, fsel,
                   matrix_world, overlay, normal_buffer, op, draw_handlers, result,
                   runVars, scene_before, overlay_before, reports, transfer_result>>

\* the normals the source mesh can give a target vertex
TransferNormals == {AxisSeq[1], AxisSeq[2]}

\* the loop over selected_vertices: vertex v gets normal given[v] on its
\* corners, in each corner's loop space, or is passed over when given[v] = <<>>
TransferWrite(m, given) ==
    [m EXCEPT !.loop_normal =
        [l \in Loops(m) |->
            IF m.loop_vert[l] \in DOMAIN given /\ given[m.loop_vert[l]] # <<>>
            THEN LoopSpaceTransform(m, l, given[m.loop_vert[l]][1], FALSE)
            ELSE m.loop_normal[l]]]

SourceAlwaysFound(objs, name) == TRUE
\* bpy.data.objects.get(self.addon.preferences.source) is an object
SourceFound(objs, name) == name \in DOMAIN objs

\* MESH_OT_TransferShading.execute
TransferExecute ==
    /\ transfer_result = "NONE"
    /\ mode = "EDIT"
    /\ pick.state # "RUNNING_MODAL"
    /\ IF ~SourceFound(objects, source)
       THEN /\ reports' = Append(reports, [type |-> "ERROR",
                                           message |-> "Source object not found."])
            /\ transfer_result' = "CANCELLED"
            /\ UNCHANGED <<mesh, mode_sets, show_edge_sharp, commits>>
       ELSE /\ \E use_interpolation \in BOOLEAN :
               \E given \in [vsel -> {<<n>> : n \in TransferNormals} \cup {<<>>}] :
                  /\ use_interpolation \/ \A v \in vsel : given[v] # <<>>
                  /\ \E written \in {TransferWrite(mesh, given)} :
                        mesh' = UpdateVertexNormalsCall(written, prefs)
            /\ mode_sets' = mode_sets + 2
            /\ show_edge_sharp' = TRUE
            /\ commits' = commits + 1
            /\ transfer_result' = "FINISHED"
            /\ UNCHANGED reports
    /\ UNCHANGED <<prefs, os_name, mode, pc, bm, split_normals, procs, proc, joining, writers,
                   passVars, mergeVars, getVars, runVars, sceneVars, pickVars, overlay_before>>

\* the scene: the edit object, another mesh, a light and an empty, each
\* enabled or disabled in viewports (an object in Edit mode stays in Edit
\* mode when a script or an animation disables it in viewports)
Scenes ==
    {[n \in {EditObject, "mesh", "light", "empty"} |->
         [type |-> IF n \in {EditObject, "mesh"} THEN "MESH"
                   ELSE IF n = "light" THEN "LIGHT" ELSE "EMPTY",
          hide_viewport |-> n \in hv,
          hide_layer |-> n \in hl]] :
        hv \in SUBSET {EditObject, "mesh", "light", "empty"}, hl \in SUBSET {"light"}}

\* a mesh in Edit mode with two vertices selected in a scene; the source
\* preference is empty, names an object of the scene, or names none
InitShading ==
    /\ InitIdle
    /\ mesh \in {MergeMesh(p) : p \in 1 .. 2}
    /\ co = [v \in 0 .. 4 |-> <<v, 0, 0>>]
    /\ vsel = {0, 1}
    /\ distance = 1
    /\ unselected = FALSE
    /\ invocations = 0
    /\ first_result = <<>>
    /\ overlay_before = <<>>
    /\ objects \in Scenes
    /\ source \in {"", "mesh", "removed"}
    /\ pick = NewPickOperator
    /\ scene_before = <<>>
    /\ finishes = 0
    /\ reports = <<>>
    /\ transfer_result = "NONE"
    /\ mode_sets = 0

NextShading ==
    \/ PickExecute
    \/ \E event \in PickEvents : PickModal(event)
    \/ TransferExecute

SpecShading == InitShading /\ [][NextShading]_vars

\* the modal of PickShadingSource has ended
PickEnded == pick.state \in {"FINISHED", "CANCELLED"} /\ transfer_result = "NONE"

\* C23: once the modal of PickShadingSource has ended, by a click with or
\* without a hit or by Escape, every object's hide_viewport is what it was
\* before execute, the editor is in Edit mode exactly when it was at the
\* start, the header text is reset and finish has run exactly once; while the
\* operator is RUNNING_MODAL nothing has been restored and finish has not run.
C23_PickRestores ==
    /\ PickEnded =>
          /\ \A n \in DOMAIN objects :
                 objects[n].hide_viewport = scene_before[1].objects[n].hide_viewport
          /\ (mode = "EDIT") <=> (scene_before[1].mode = "EDIT")
          /\ header_text = <<>>
          /\ finishes = 1
    /\ pick.state = "RUNNING_MODAL" =>
          /\ \A n \in pick.temporarily_hidden_objects : objects[n].hide_viewport
          /\ mode = "OBJECT"
          /\ header_text = PickUsage
          /\ finishes = 0

\* C23, the part that holds: the same with the objects other than one that
\* was in Edit mode while disabled in viewports
C23_PickRestoresEnabled ==
    /\ PickEnded =>
          /\ \A n \in DOMAIN objects :
                 (n # EditObject \/ ~scene_before[1].objects[n].hide_viewport) =>
                    objects[n].hide_viewport = scene_before[1].objects[n].hide_viewport
          /\ (mode = "EDIT") <=> (scene_before[1].mode = "EDIT")
          /\ header_text = <<>>
          /\ finishes = 1
    /\ pick.state = "RUNNING_MODAL" =>
          /\ \A n \in pick.temporarily_hidden_objects : objects[n].hide_viewport
          /\ mode = "OBJECT"
          /\ header_text = PickUsage
          /\ finishes = 0

\* C25: when the source preference names no object, TransferShading reports
\* an error and returns CANCELLED without a mode switch, without a write to
\* any loop_normal or any other mesh data, and without the recompute pass and
\* its commit.
C25_MissingSourceCancels ==
    [][(transfer_result = "NONE" /\ transfer_result' # "NONE" /\ source \notin DOMAIN objects) =>
          /\ transfer_result' = "CANCELLED"
          /\ reports' = Append(reports, [type |-> "ERROR",
                                         message |-> "Source object not found."])
          /\ mode_sets' = mode_sets
          /\ mode' = mode
          /\ mesh' = mesh
          /\ commits' = commits
          /\ show_edge_sharp' = show_edge_sharp]_vars

\* C25 happens: cancelled for a name that is not in the scene, and cancelled
\* for the empty name a pick without a hit left
C25_Witness ==
    /\ transfer_result = "CANCELLED"
    /\ Len(reports) = 1
    /\ source \notin DOMAIN objects
    /\ mode_sets = IF pick.state = "NONE" THEN 0 ELSE 2
    /\ pick.state = "FINISHED" => source = ""

\* GetNormalVector has returned FINISHED or CANCELLED
GetEnded == result \in {"FINISHED", "CANCELLED"} /\ overlay_before # <<>>

\* C24: on every path of GetNormalVector that ends FINISHED or CANCELLED the
\* three overlay flags are what they were before execute and no draw handler
\* is left; the handler is added once, on the step that starts the modal, and
\* removed once, on the Enter or Escape that ends it; the paths that never
\* start the modal (a face, a vertex with no or one normal) change neither.
C24_OverlayAndHandlerRestored ==
    /\ [](GetEnded => overlay = overlay_before[1] /\ draw_handlers = 0)
    /\ [](result = "RUNNING_MODAL" => draw_handlers = 1)
    /\ [][/\ (result = "NONE" /\ result' = "RUNNING_MODAL") =>
                draw_handlers' = draw_handlers + 1
          /\ (result = "RUNNING_MODAL" /\ result' \in {"FINISHED", "CANCELLED"}) =>
                draw_handlers' = draw_handlers - 1
          /\ (result = "RUNNING_MODAL" /\ result' = "RUNNING_MODAL") =>
                draw_handlers' = draw_handlers /\ overlay' = overlay
          /\ (result = "NONE" /\ result' \in {"FINISHED", "CANCELLED"}) =>
                draw_handlers' = draw_handlers /\ overlay' = overlay]_vars

\* C24 happens: a modal over several normals has ended with flags that were
\* on before execute, after an arrow key moved the selection
C24_Witness ==
    /\ GetEnded
    /\ op.num_normals >= 2
    /\ op.selected_idx # 0
    /\ overlay_before[1].show_split_normals
    /\ overlay.show_split_normals
    /\ draw_handlers = 0

\* the arrow key presses of the modal
LeftPress == [type |-> "LEFT_ARROW", value |-> "PRESS"]
RightPress == [type |-> "RIGHT_ARROW", value |-> "PRESS"]

\* the index after k presses of the right arrow key
RECURSIVE Rights(_, _, _)
Rights(idx, n, k) == IF k = 0 THEN idx ELSE Rights(SelectNext(idx, n), n, k - 1)

\* C29: in the modal of GetNormalVector the selected index stays in
\* 0 .. num_normals - 1 whatever arrow keys are pressed; a right press moves
\* to the next index and from the last one to 0, a left press to the previous
\* index and from 0 to the last one; num_normals right presses, or a left
\* press and then a right press, give the index they started from.
C29_SelectionWraps ==
    /\ [](result = "RUNNING_MODAL" =>
            /\ op.selected_idx \in 0 .. op.num_normals - 1
            /\ Rights(op.selected_idx, op.num_normals, op.num_normals) = op.selected_idx
            /\ SelectNext(SelectPrevious(op.selected_idx, op.num_normals), op.num_normals)
                 = op.selected_idx)
    /\ [][/\ GetModal(RightPress) =>
                op'.selected_idx = IF op.selected_idx = op.num_normals - 1 THEN 0
                                   ELSE op.selected_idx + 1
          /\ GetModal(LeftPress) =>
                op'.selected_idx = IF op.selected_idx = 0 THEN op.num_normals - 1
                                   ELSE op.selected_idx - 1]_vars

\* C29 happens: the modal runs over three normals and the selection is on
\* the last one
C29_Witness ==
    /\ result = "RUNNING_MODAL"
    /\ op.num_normals = 3
    /\ op.selected_idx = 2

\* the Enter key press of the modal
ReturnPress == [type |-> "RET", value |-> "PRESS"]

\* C30: GetNormalVector writes normal_buffer only where it completes: the
\* world space normal of the one selected face, the only normal of the
\* selected vertex, or, on Enter in the modal, the normal at the selected
\* index; Escape, the arrow keys, every other event and the cancelled paths
\* leave the buffer as it was.
C30_BufferWrittenOnCompletion ==
    [][/\ normal_buffer' # normal_buffer =>
             /\ result' = "FINISHED"
             /\ \/ result = "NONE" /\ Cardinality(fsel) = 1
                \/ result = "NONE" /\ Cardinality(fsel) # 1 /\ op'.num_normals = 1
                \/ GetModal(ReturnPress)
       /\ (result = "NONE" /\ result' = "FINISHED" /\ Cardinality(fsel) = 1) =>
             normal_buffer' = <<MatrixApply(matrix_world,
                                            mesh.face_normal[CHOOSE f \in fsel : TRUE])>>
       /\ (result = "NONE" /\ result' = "FINISHED" /\ Cardinality(fsel) # 1) =>
             op'.num_normals = 1 /\ normal_buffer' = <<op'.normals[1]>>
       /\ GetModal(ReturnPress) =>
             normal_buffer' = <<op.normals[op.selected_idx + 1]>>
       /\ \A event \in Events \ {ReturnPress} :
             GetModal(event) => normal_buffer' = normal_buffer
       /\ result' = "CANCELLED" => normal_buffer' = normal_buffer]_vars

\* C30 happens: Enter stored the normal at an index the arrow keys moved to
C30_Witness ==
    /\ result = "FINISHED"
    /\ op.num_normals >= 2
    /\ op.selected_idx # 0
    /\ normal_buffer = <<op.normals[op.selected_idx + 1]>>
    /\ normal_buffer # <<op.normals[1]>>

\* the shading group of corner l
GroupOf(m, pr, l) == CHOOSE g \in VertexGroups(m, pr, m.loop_vert[l]) : l \in g

\* a pass has run to its end and no worker was terminated or died
PassComplete ==
    /\ pc \in {"computed", "done"}
    /\ \A p \in DOMAIN proc : proc[p].state = "exited"

\* C26: after a complete compute pass in which no worker failed, the slot of
\* every corner has been written exactly once and holds the normal of the
\* corner's shading group; a slot is still the zero vector it was created
\* with only where its group's normal is the zero vector.
C26_EverySlotWrittenOnce ==
    PassComplete =>
        \A l \in Loops(WorkMesh) :
            /\ Len(writers[l]) = 1
            /\ split_normals[l] =
                  GroupNormal(WorkMesh, prefs, WorkMesh.vert_weight[WorkMesh.loop_vert[l]],
                              GroupOf(WorkMesh, prefs, l))
            /\ split_normals[l] = ZeroVec =>
                  GroupNormal(WorkMesh, prefs, WorkMesh.vert_weight[WorkMesh.loop_vert[l]],
                              GroupOf(WorkMesh, prefs, l)) = ZeroVec

\* C26 happens: a team of two has finished a pass over a mesh with corners,
\* both workers wrote slots, and groups of more than one corner got a normal
C26_Witness ==
    /\ PassComplete
    /\ Total >= 2
    /\ \E a \in DOMAIN writers : \E b \in DOMAIN writers :
          writers[a] = <<0>> /\ writers[b] = <<1>>
    /\ \E l \in Loops(WorkMesh) :
          /\ Cardinality(GroupOf(WorkMesh, prefs, l)) >= 2
          /\ split_normals[l] # ZeroVec

\* C27: the normal computed for a shading group is assigned to every corner
\* of the group, those of lower face priority that did not contribute
\* included, so all corners of the group hold the same vector.
C27_WholeGroupAssigned ==
    pc = "grouped" =>
        /\ \A l \in DoneGroup : split_normals[l] = Normalize(RawSum(DoneGroup))
        /\ \A a \in DoneGroup : \A b \in DoneGroup : split_normals[a] = split_normals[b]

\* C27 happens: a corner of lower priority than the group's maximum holds the
\* group's normal, which is not zero and not what its own face would give
C27_Witness ==
    /\ pc = "grouped"
    /\ \E l \in DoneGroup :
          /\ PriorityOf(l) < TopPriority(DoneGroup)
          /\ split_normals[l] = Normalize(RawSum(DoneGroup))
          /\ split_normals[l] # ZeroVec
          /\ split_normals[l] # Normalize(Contribution(mesh, prefs, HubWeight, l))

\* C28: every cluster normal of MergeVertexNormals is computed from the loop
\* normals read once before the loop: whatever was popped and written
\* before, the normal recorded for a seed is the merged normal of the seed's
\* cluster over the normals the mesh had when the operator started.
C28_ClusterNormalFromSnapshot ==
    pc = "merging" =>
        /\ loop_normals = mesh.split_normal
        /\ \A i \in DOMAIN clusters :
              clusters[i].normal =
                 MergedNormal(mesh, mesh.split_normal, ClusterAt(clusters[i].seed, distance))

\* C28 happens: a cluster that was written shares a vertex with a later
\* cluster, the corners of that vertex no longer carry what the snapshot
\* holds, and the later cluster got another normal than the earlier one
C28_Witness ==
    /\ pc = "merging"
    /\ Len(clusters) >= 2
    /\ clusters[1].wrote
    /\ clusters[2].normal # clusters[1].normal
    /\ clusters[2].normal # ZeroVec
    /\ \E v \in clusters[1].members \cap clusters[2].members :
          \E l \in LinkLoops(mesh, v) : mesh.loop_normal[l] # loop_normals[l]

====
